---- MODULE Spec2Model ----
(***************************************************************************)
(* Model of the extract_module assist                                      *)
(* (crates/ide-assists/src/handlers/extract_module.rs).                    *)
(*                                                                         *)
(* A project snapshot is a sequence of files; a file is a syntax tree      *)
(* whose leaves are tokens.  Every token has length 1, so a text offset is *)
(* a token index and a TextRange is a pair of token indices [s, e).        *)
(* A syntax element is identified by <<file>> \o <<child indices>>.        *)
(* The semantic index (to_def, classify, usages) is the annotation d that  *)
(* NAME and NAME_REF nodes carry: the Definition they introduce / mean.    *)
(***************************************************************************)
EXTENDS Integers, Sequences, FiniteSets, TLC

\* ------------------------------------------------------------------------
\* Syntax tree values
\* ------------------------------------------------------------------------
NoDef == "-"

Tk(k, t) == [tok |-> TRUE, k |-> k, t |-> t, c |-> <<>>, d |-> NoDef]

Nd(k, c) == [tok |-> FALSE, k |-> k, t |-> "", c |-> c, d |-> NoDef]

NdD(k, c, d) == [tok |-> FALSE, k |-> k, t |-> "", c |-> c, d |-> d]

Ws == Tk("WHITESPACE", " ")

Name(t, d) == NdD("NAME", <<Tk("IDENT", t)>>, d)

NameRef(t, d) == NdD("NAME_REF", <<Tk("IDENT", t)>>, d)

\* `super`, `self` and `crate` are NAME_REFs holding a keyword token
KwRef(t) == NdD("NAME_REF", <<Tk("PATH_KW", t)>>, NoDef)

Seg(nr) == Nd("PATH_SEGMENT", <<nr>>)

Path1(nr) == Nd("PATH", <<Seg(nr)>>)

PathQ(q, nr) == Nd("PATH", <<q, Tk("COLON2", "::"), Seg(nr)>>)

PathType(p) == Nd("PATH_TYPE", <<p>>)

LCurly == Tk("L_CURLY", "{")

RCurly == Tk("R_CURLY", "}")

Semi == Tk("SEMICOLON", ";")

Comma == Tk("COMMA", ",")

Vis(t) == Nd("VISIBILITY", <<Tk("PUB_KW", t)>>)

ParamList == Nd("PARAM_LIST", <<Tk("L_PAREN", "("), Tk("R_PAREN", ")")>>)

Block(stmts) == Nd("BLOCK_EXPR", <<Nd("STMT_LIST", <<LCurly>> \o stmts \o <<RCurly>>)>>)

\* fn <name>() { <stmts> }  with an optional prefix (visibility)
Fn(pre, t, d, stmts) ==
    Nd("FN", pre \o <<Tk("FN_KW", "fn"), Name(t, d), ParamList, Block(stmts)>>)

\* <path>();
CallStmt(p) ==
    Nd("EXPR_STMT", <<Nd("CALL_EXPR", <<Nd("PATH_EXPR", <<p>>),
         Nd("ARG_LIST", <<Tk("L_PAREN", "("), Tk("R_PAREN", ")")>>)>>), Semi>>)

\* <path>!();
MacroCallStmt(p) ==
    Nd("EXPR_STMT", <<Nd("MACRO_EXPR", <<Nd("MACRO_CALL", <<p, Tk("BANG", "!"),
         Nd("TOKEN_TREE", <<Tk("L_PAREN", "("), Tk("R_PAREN", ")")>>)>>)>>), Semi>>)

\* macro <name>() {}
MacroDef(pre, t, d) ==
    Nd("MACRO_DEF", pre \o <<Tk("MACRO_KW", "macro"), Name(t, d),
         Nd("TOKEN_TREE", <<Tk("L_PAREN", "("), Tk("R_PAREN", ")")>>),
         Nd("TOKEN_TREE", <<LCurly, RCurly>>)>>)

\* macro_rules! <name> {}
MacroRules(t, d) ==
    Nd("MACRO_RULES", <<Tk("MACRO_RULES_KW", "macro_rules"), Tk("BANG", "!"), Name(t, d),
         Nd("TOKEN_TREE", <<LCurly, RCurly>>)>>)

RecordField(pre, t, d, ty) ==
    Nd("RECORD_FIELD", pre \o <<Name(t, d), Tk("COLON", ":"), PathType(ty)>>)

\* struct <name> { <fields> }
Struct(pre, t, d, fields) ==
    Nd("STRUCT", pre \o <<Tk("STRUCT_KW", "struct"), Name(t, d),
         Nd("RECORD_FIELD_LIST", <<LCurly>> \o fields \o <<RCurly>>)>>)

\* struct <name>;
UnitStruct(pre, t, d) ==
    Nd("STRUCT", pre \o <<Tk("STRUCT_KW", "struct"), Name(t, d), Semi>>)

\* struct <name>(<types>);
TupleStruct(pre, t, d, tys) ==
    Nd("STRUCT", pre \o <<Tk("STRUCT_KW", "struct"), Name(t, d),
         Nd("TUPLE_FIELD_LIST",
            <<Tk("L_PAREN", "(")>> \o [i \in DOMAIN tys |-> Nd("TUPLE_FIELD", <<PathType(tys[i])>>)]
                \o <<Tk("R_PAREN", ")")>>),
         Semi>>)

\* union <name> { <fields> }
Union(pre, t, d, fields) ==
    Nd("UNION", pre \o <<Tk("UNION_KW", "union"), Name(t, d),
         Nd("RECORD_FIELD_LIST", <<LCurly>> \o fields \o <<RCurly>>)>>)

\* <name> { <fields> } as a variant of an enum
RecordVariant(t, d, fields) ==
    Nd("VARIANT", <<Name(t, d), Nd("RECORD_FIELD_LIST", <<LCurly>> \o fields \o <<RCurly>>)>>)

\* enum <name> { <variants> }
Enum(pre, t, d, variants) ==
    Nd("ENUM", pre \o <<Tk("ENUM_KW", "enum"), Name(t, d),
         Nd("VARIANT_LIST", <<LCurly>> \o variants \o <<RCurly>>)>>)

\* const <name>: <type> = 0;  and  static <name>: <type> = 0;
ValueItem(k, kw, pre, t, d, ty) ==
    Nd(k, pre \o <<kw, Name(t, d), Tk("COLON", ":"), PathType(ty), Tk("EQ", "="),
         Nd("LITERAL", <<Tk("INT_NUMBER", "0")>>), Semi>>)

Const(pre, t, d, ty) == ValueItem("CONST", Tk("CONST_KW", "const"), pre, t, d, ty)

Static(pre, t, d, ty) == ValueItem("STATIC", Tk("STATIC_KW", "static"), pre, t, d, ty)

\* extern crate <name>;
ExternCrate(pre, t) ==
    Nd("EXTERN_CRATE", pre \o <<Tk("EXTERN_KW", "extern"), Tk("CRATE_KW", "crate"),
         NameRef(t, NoDef), Semi>>)

\* impl <self_ty> { <members> }
Impl(selfTy, members) ==
    Nd("IMPL", <<Tk("IMPL_KW", "impl"), PathType(selfTy),
         Nd("ASSOC_ITEM_LIST", <<LCurly>> \o members \o <<RCurly>>)>>)

\* impl <trait> for <self_ty> { <members> }
ImplFor(trait, selfTy, members) ==
    Nd("IMPL", <<Tk("IMPL_KW", "impl"), PathType(trait), Tk("FOR_KW", "for"),
         PathType(selfTy),
         Nd("ASSOC_ITEM_LIST", <<LCurly>> \o members \o <<RCurly>>)>>)

Trait(pre, t, d) ==
    Nd("TRAIT", pre \o <<Tk("TRAIT_KW", "trait"), Name(t, d),
         Nd("ASSOC_ITEM_LIST", <<LCurly, RCurly>>)>>)

Module(pre, t, d, items) ==
    Nd("MODULE", pre \o <<Tk("MOD_KW", "mod"), Name(t, d),
         Nd("ITEM_LIST", <<LCurly>> \o items \o <<RCurly>>)>>)

\* type <name> = (<types>);
TypeAlias(pre, t, d, tys) ==
    Nd("TYPE_ALIAS", pre \o <<Tk("TYPE_KW", "type"), Name(t, d), Tk("EQ", "="),
         Nd("TUPLE_TYPE", <<Tk("L_PAREN", "(")>> \o tys \o <<Tk("R_PAREN", ")")>>),
         Semi>>)

UseTreeP(p) == Nd("USE_TREE", <<p>>)

UseTreeL(p, trees) ==
    Nd("USE_TREE", <<p, Tk("COLON2", "::"),
         Nd("USE_TREE_LIST", <<LCurly>> \o trees \o <<RCurly>>)>>)

\* <path> as <alias>: the alias resolves to the Definition d of the path
UseTreeAs(p, t, d) ==
    Nd("USE_TREE", <<p, Nd("RENAME", <<Tk("AS_KW", "as"), Name(t, d)>>)>>)

Use(tree) == Nd("USE", <<Tk("USE_KW", "use"), tree, Semi>>)

SourceFile(items) == Nd("SOURCE_FILE", items)

\* ------------------------------------------------------------------------
\* Text ranges (text-size: TextRange)
\* ------------------------------------------------------------------------
Min(a, b) == IF a <= b THEN a ELSE b

Max(a, b) == IF a >= b THEN a ELSE b

Range(s, e) == [s |-> s, e |-> e]

contains_range(a, b) == a.s <= b.s /\ b.e <= a.e

NoRange == [s |-> -1, e |-> -1]

\* TextRange::intersect: None is NoRange
intersect(a, b) ==
    LET s == Max(a.s, b.s)
        e == Min(a.e, b.e)
    IN  IF e < s THEN NoRange ELSE Range(s, e)

cover(a, b) == Range(Min(a.s, b.s), Max(a.e, b.e))

is_empty(r) == r.s = r.e

\* ------------------------------------------------------------------------
\* Project snapshots (inputs).  File 1 is the file holding the selection.
\* ------------------------------------------------------------------------
\* tests 1509-1566 (selection inside an impl block), with a call of the
\* associated function in a sibling member:
\*   struct A{}impl A{ fn foo(){} fn bar(){A::foo();}}
ProjHosted ==
    << SourceFile(<<
         Struct(<<>>, "A", "A", <<>>),
         Impl(Path1(NameRef("A", "A")),
              <<Ws, Fn(<<>>, "foo", "foo", <<>>),
                Ws, Fn(<<>>, "bar", "bar",
                       <<CallStmt(PathQ(Path1(NameRef("A", "A")), NameRef("foo", "foo")))>>)>>)
       >>) >>

\* test 1474-1507 (trait impl):
\*   trait ATrait{}struct A{}impl ATrait for A{ fn function(){}}
ProjTraitImpl ==
    << SourceFile(<<
         Trait(<<>>, "ATrait", "ATrait"),
         Struct(<<>>, "A", "A", <<>>),
         ImplFor(Path1(NameRef("ATrait", "ATrait")), Path1(NameRef("A", "A")),
              <<Ws, Fn(<<>>, "function", "function", <<>>)>>) >>) >>

\* tests 1055-1080 (free function) and 950-1053 (struct fields, usages):
\*   pub struct B;struct S{f:B,pub g:B}fn baz(){}fn qux(){baz();}
\* file 2:  fn user(){crate::baz();}
ProjFree ==
    << SourceFile(<<
         UnitStruct(<<Vis("pub")>>, "B", "B"),
         Struct(<<>>, "S", "S",
              <<RecordField(<<>>, "f", "S.f", Path1(NameRef("B", "B"))), Comma,
                RecordField(<<Vis("pub")>>, "g", "S.g", Path1(NameRef("B", "B")))>>),
         Fn(<<>>, "baz", "baz", <<>>),
         Fn(<<>>, "qux", "qux", <<CallStmt(Path1(NameRef("baz", "baz")))>>) >>),
       SourceFile(<<
         Fn(<<>>, "user", "user",
            <<CallStmt(PathQ(Path1(KwRef("crate")), NameRef("baz", "baz")))>>) >>) >>

\* test 1568-1600 (issue 11766) with a three-entry import group:
\*   mod x{pub struct A;pub struct B;pub struct C;}
\*   use x::{A, B, C};
\*   type T=(A,C,B);
ProjGroup ==
    << SourceFile(<<
         Module(<<>>, "x", "x",
              <<UnitStruct(<<Vis("pub")>>, "A", "x::A"),
                UnitStruct(<<Vis("pub")>>, "B", "x::B"),
                UnitStruct(<<Vis("pub")>>, "C", "x::C")>>),
         Use(UseTreeL(Path1(NameRef("x", "x")),
              <<UseTreeP(Path1(NameRef("A", "x::A"))), Comma, Ws,
                UseTreeP(Path1(NameRef("B", "x::B"))), Comma, Ws,
                UseTreeP(Path1(NameRef("C", "x::C")))>>)),
         TypeAlias(<<>>, "T", "T",
              <<PathType(Path1(NameRef("A", "x::A"))), Comma,
                PathType(Path1(NameRef("C", "x::C"))), Comma,
                PathType(Path1(NameRef("B", "x::B")))>>) >>) >>

\* tests 1121-1211 (imports reused from an import group of the enclosing module):
\*   mod foo{pub struct P;pub struct Q;}
\*   mod bar{use super::foo::{P, Q};struct S{f:P,g:Q}struct U{f:Q}}
ProjBar ==
    << SourceFile(<<
         Module(<<>>, "foo", "foo",
              <<UnitStruct(<<Vis("pub")>>, "P", "foo::P"),
                UnitStruct(<<Vis("pub")>>, "Q", "foo::Q")>>),
         Module(<<>>, "bar", "bar",
              <<Use(UseTreeL(PathQ(Path1(KwRef("super")), NameRef("foo", "foo")),
                   <<UseTreeP(Path1(NameRef("P", "foo::P"))), Comma, Ws,
                     UseTreeP(Path1(NameRef("Q", "foo::Q")))>>)),
                Struct(<<>>, "S", "bar::S",
                   <<RecordField(<<>>, "f", "S.f", Path1(NameRef("P", "foo::P"))), Comma,
                     RecordField(<<>>, "g", "S.g", Path1(NameRef("Q", "foo::Q")))>>),
                Struct(<<>>, "U", "bar::U",
                   <<RecordField(<<>>, "f", "U.f", Path1(NameRef("Q", "foo::Q")))>>)>>)
       >>) >>

\* tests 1213-1248 and 1291-1337 (single-path import, declaration in the module
\* of the selection):
\*   mod foo{pub struct R;}
\*   mod bar{use super::foo::R;pub struct L;struct S{f:R,g:L}struct U{f:L}}
ProjSingle ==
    << SourceFile(<<
         Module(<<>>, "foo", "foo", <<UnitStruct(<<Vis("pub")>>, "R", "foo::R")>>),
         Module(<<>>, "bar", "bar",
              <<Use(UseTreeP(PathQ(PathQ(Path1(KwRef("super")), NameRef("foo", "foo")),
                                   NameRef("R", "foo::R")))),
                UnitStruct(<<Vis("pub")>>, "L", "bar::L"),
                Struct(<<>>, "S", "bar::S",
                   <<RecordField(<<>>, "f", "S.f", Path1(NameRef("R", "foo::R"))), Comma,
                     RecordField(<<>>, "g", "S.g", Path1(NameRef("L", "bar::L")))>>),
                Struct(<<>>, "U", "bar::U",
                   <<RecordField(<<>>, "f", "U.f", Path1(NameRef("L", "bar::L")))>>)>>)
       >>) >>

\* a module of the crate root used through a qualified path in the selection:
\*   mod x{pub struct P;pub struct Q;}use x::P;type T=(P,x::Q);
ProjQual ==
    << SourceFile(<<
         Module(<<>>, "x", "x",
              <<UnitStruct(<<Vis("pub")>>, "P", "x::P"),
                UnitStruct(<<Vis("pub")>>, "Q", "x::Q")>>),
         Use(UseTreeP(PathQ(Path1(NameRef("x", "x")), NameRef("P", "x::P")))),
         TypeAlias(<<>>, "T", "T",
              <<PathType(Path1(NameRef("P", "x::P"))), Comma,
                PathType(PathQ(Path1(NameRef("x", "x")), NameRef("Q", "x::Q")))>>) >>) >>

\* the same with a second use of the qualified path outside the selection:
\*   mod x{pub struct P;pub struct Q;}use x::P;type T=(P,x::Q);type V=(x::Q);
ProjBoth ==
    << SourceFile(<<
         Module(<<>>, "x", "x",
              <<UnitStruct(<<Vis("pub")>>, "P", "x::P"),
                UnitStruct(<<Vis("pub")>>, "Q", "x::Q")>>),
         Use(UseTreeP(PathQ(Path1(NameRef("x", "x")), NameRef("P", "x::P")))),
         TypeAlias(<<>>, "T", "T",
              <<PathType(Path1(NameRef("P", "x::P"))), Comma,
                PathType(PathQ(Path1(NameRef("x", "x")), NameRef("Q", "x::Q")))>>),
         TypeAlias(<<>>, "V", "V",
              <<PathType(PathQ(Path1(NameRef("x", "x")), NameRef("Q", "x::Q")))>>) >>) >>

\* a declaration of the module of the selection that the module imports
\* under an alias through a `super` path:
\*   mod bar{pub struct R;use super::bar::R as R2;struct S{f:R}}
ProjAlias ==
    << SourceFile(<<
         Module(<<>>, "bar", "bar",
              <<UnitStruct(<<Vis("pub")>>, "R", "bar::R"),
                Use(UseTreeAs(PathQ(PathQ(Path1(KwRef("super")), NameRef("bar", "bar")),
                                    NameRef("R", "bar::R")), "R2", "bar::R")),
                Struct(<<>>, "S", "bar::S",
                   <<RecordField(<<>>, "f", "S.f", Path1(NameRef("R", "bar::R")))>>)>>)
       >>) >>

\* test 950-1053 (imports through nested import groups), with an inner
\* module that carries the name of the outer one:
\*   mod a{pub mod a{pub struct Z;}pub mod n{pub struct Y;}}
\*   use a::{a::{Z}, n::{Y}};type W=(Z,Y);
ProjNest ==
    << SourceFile(<<
         Module(<<>>, "a", "a",
              <<Module(<<Vis("pub")>>, "a", "a::a",
                     <<UnitStruct(<<Vis("pub")>>, "Z", "a::a::Z")>>),
                Module(<<Vis("pub")>>, "n", "a::n",
                     <<UnitStruct(<<Vis("pub")>>, "Y", "a::n::Y")>>)>>),
         Use(UseTreeL(Path1(NameRef("a", "a")),
              <<UseTreeL(Path1(NameRef("a", "a::a")),
                     <<UseTreeP(Path1(NameRef("Z", "a::a::Z")))>>), Comma, Ws,
                UseTreeL(Path1(NameRef("n", "a::n")),
                     <<UseTreeP(Path1(NameRef("Y", "a::n::Y")))>>)>>)),
         TypeAlias(<<>>, "W", "W",
              <<PathType(Path1(NameRef("Z", "a::a::Z"))), Comma,
                PathType(Path1(NameRef("Y", "a::n::Y")))>>) >>) >>

\* test 1454-1472 (macros), with one macro that is imported and one that is
\* declared beside the selection:
\*   mod x{pub macro mac(){}}use x::mac;macro_rules! loc{}fn f(){mac!();loc!();}
ProjMacro ==
    << SourceFile(<<
         Module(<<>>, "x", "x", <<MacroDef(<<Vis("pub")>>, "mac", "x::mac")>>),
         Use(UseTreeP(PathQ(Path1(NameRef("x", "x")), NameRef("mac", "x::mac")))),
         MacroRules("loc", "loc"),
         Fn(<<>>, "f", "f",
            <<MacroCallStmt(Path1(NameRef("mac", "x::mac"))),
              MacroCallStmt(Path1(NameRef("loc", "loc")))>>) >>) >>

\* test 1602-1771 (the kinds of declaration that get a visibility), with the
\* kinds the test leaves out:
\*   extern crate c;const K:i32=0;static G:i32=0;unsafe fn u(){}macro m(){}
\*   struct P(i32);union N{x:i32}enum E{B{x:i32}}
ProjKinds ==
    << SourceFile(<<
         ExternCrate(<<>>, "c"),
         Const(<<>>, "K", "K", Path1(NameRef("i32", NoDef))),
         Static(<<>>, "G", "G", Path1(NameRef("i32", NoDef))),
         Fn(<<Tk("UNSAFE_KW", "unsafe")>>, "u", "u", <<>>),
         MacroDef(<<>>, "m", "m"),
         TupleStruct(<<>>, "P", "P", <<Path1(NameRef("i32", NoDef))>>),
         Union(<<>>, "N", "N", <<RecordField(<<>>, "x", "N.x", Path1(NameRef("i32", NoDef)))>>),
         Enum(<<>>, "E", "E",
              <<RecordVariant("B", "E::B",
                   <<RecordField(<<>>, "x", "B.x", Path1(NameRef("i32", NoDef)))>>)>>)
       >>) >>

\* tests 950-1053 and 1409-1451 (usages in two files, an import to remove):
\*   file 1: mod foo{pub struct R;pub struct Q;}use foo::{R, Q};
\*           pub struct L;struct S{f:R}type V=(L,Q);
\*   file 2: type W=(crate::L);
ProjOrder ==
    << SourceFile(<<
         Module(<<>>, "foo", "foo",
              <<UnitStruct(<<Vis("pub")>>, "R", "foo::R"),
                UnitStruct(<<Vis("pub")>>, "Q", "foo::Q")>>),
         Use(UseTreeL(Path1(NameRef("foo", "foo")),
              <<UseTreeP(Path1(NameRef("R", "foo::R"))), Comma, Ws,
                UseTreeP(Path1(NameRef("Q", "foo::Q")))>>)),
         UnitStruct(<<Vis("pub")>>, "L", "L"),
         Struct(<<>>, "S", "S",
              <<RecordField(<<>>, "f", "S.f", Path1(NameRef("R", "foo::R")))>>),
         TypeAlias(<<>>, "V", "V",
              <<PathType(Path1(NameRef("L", "L"))), Comma,
                PathType(Path1(NameRef("Q", "foo::Q")))>>) >>),
       SourceFile(<<
         TypeAlias(<<>>, "W", "W",
              <<PathType(PathQ(Path1(KwRef("crate")), NameRef("L", "L")))>>) >>) >>

\* tests 1509-1537 (selection inside an impl block), the second member
\* written right after the first:
\*   struct A{}impl A{ fn foo(){}fn bar(){}}
ProjTight ==
    << SourceFile(<<
         Struct(<<>>, "A", "A", <<>>),
         Impl(Path1(NameRef("A", "A")),
              <<Ws, Fn(<<>>, "foo", "foo", <<>>), Fn(<<>>, "bar", "bar", <<>>)>>)
       >>) >>

Projects ==
    <<ProjHosted, ProjTraitImpl, ProjFree, ProjGroup, ProjBar, ProjSingle, ProjQual, ProjBoth,
      ProjAlias, ProjNest, ProjMacro, ProjKinds, ProjOrder, ProjTight>>

\* ------------------------------------------------------------------------
\* Flattened tree tables
\* ------------------------------------------------------------------------
RECURSIVE NTok(_)
NTok(x) ==
    IF x.tok THEN 1
    ELSE LET RECURSIVE Sum(_)
             Sum(i) == IF i > Len(x.c) THEN 0 ELSE NTok(x.c[i]) + Sum(i + 1)
         IN  Sum(1)

RECURSIVE TextOf(_)
TextOf(x) ==
    IF x.tok THEN <<x.t>>
    ELSE LET RECURSIVE Cat(_)
             Cat(i) == IF i > Len(x.c) THEN <<>> ELSE TextOf(x.c[i]) \o Cat(i + 1)
         IN  Cat(1)

RECURSIVE FlatNode(_, _, _)
FlatNode(x, id, start) ==
    LET RECURSIVE Kids(_, _)
        Kids(i, at) ==
            IF i > Len(x.c) THEN {}
            ELSE FlatNode(x.c[i], Append(id, i), at) \cup Kids(i + 1, at + NTok(x.c[i]))
    IN  {[id |-> id, k |-> x.k, tok |-> x.tok, d |-> x.d, n |-> Len(x.c),
          s |-> start, e |-> start + NTok(x), text |-> TextOf(x)]}
        \cup Kids(1, start)

FlatProject(proj) == UNION {FlatNode(proj[f], <<f>>, 0) : f \in DOMAIN proj}

\* the rows of a project keyed by element id
Keyed(rows) == [id \in {r.id : r \in rows} |-> CHOOSE r \in rows : r.id = id]

TableOf(proj) == Keyed(FlatProject(proj))

\* the files of a table
FilesOf(T) == {id[1] : id \in DOMAIN T}

\* SyntaxNode::covering_element, descending from element id of table T
RECURSIVE CoverIn(_, _, _)
CoverIn(T, id, r) ==
    LET inside == {i \in 1..T[id].n :
                     T[Append(id, i)].s <= r.s /\ r.e <= T[Append(id, i)].e}
    IN  IF inside = {} THEN id
        ELSE CoverIn(T, Append(id, CHOOSE i \in inside : \A j \in inside : i <= j), r)

\* the covering element of every range of every file
CoverTable(T) ==
    [f \in FilesOf(T) |->
        [r \in {x \in [s : 0..T[<<f>>].e, e : 0..T[<<f>>].e] : x.s <= x.e} |->
            CoverIn(T, <<f>>, r)]]


\* node.descendants() in table T: the node and the nodes below it, in preorder
RECURSIVE DescIn(_, _)
DescIn(T, id) ==
    LET RECURSIVE Cat(_)
        Cat(i) == IF i > T[id].n THEN <<>>
                  ELSE (IF T[Append(id, i)].tok THEN <<>> ELSE DescIn(T, Append(id, i)))
                       \o Cat(i + 1)
    IN  <<id>> \o Cat(1)

DescTable(T) == [id \in {x \in DOMAIN T : ~T[x].tok} |-> DescIn(T, id)]

\* ------------------------------------------------------------------------
\* State
\* ------------------------------------------------------------------------
VARIABLES
    snap,                       \* index of the project snapshot
    db,                         \* ctx.sema / ctx.db: the trees and the semantic index
    sel,                        \* ctx.selection_trimmed()
    pc,                         \* "start" | "none" | "registered" | "built"
    acc,                        \* Assists: the registered assists
    node,                       \* extract_module: node
    impl_parent,                \* extract_module: impl_parent
    impl_child_count,           \* extract_module: impl_child_count
    curr_parent_module,         \* extract_module: curr_parent_module
    module,                     \* extract_module: module
    edits,                      \* the builder's scheduled edits, in order
    vis_inserted,               \* elements before which pub(crate) was inserted
    import_paths_to_be_removed, \* resolve_imports / check_intersection_and_push
    module_def,                 \* the text of the new module, as a token sequence
    import_log,                 \* one record per symbol handed to the import decision
    pushed                      \* the ranges handed to check_intersection_and_push

vars == <<snap, db, sel, pc, acc, node, impl_parent, impl_child_count,
          curr_parent_module, module, edits, vis_inserted,
          import_paths_to_be_removed, module_def, import_log, pushed>>

\* ------------------------------------------------------------------------
\* Tree navigation (rowan SyntaxNode API) on the current snapshot
\* ------------------------------------------------------------------------
NoNode == <<>>

Tab == db.tree

El(id) == Tab[id]

kind(id) == El(id).k

text_range(id) == Range(El(id).s, El(id).e)

to_string(id) == El(id).text

file_of(id) == id[1]

parent(id) == IF Len(id) > 1 THEN SubSeq(id, 1, Len(id) - 1) ELSE NoNode

children_with_tokens(id) == [i \in 1..El(id).n |-> Append(id, i)]

IsNode(id) == ~El(id).tok

children(id) == SelectSeq(children_with_tokens(id), IsNode)

\* node.ancestors(): the node itself first, then its parents up to the root
ancestors(id) == [i \in 1..Len(id) |-> SubSeq(id, 1, Len(id) + 1 - i)]

\* node.descendants(): the node and the nodes below it, in preorder
descendants(id) == db.desc[id]

\* SyntaxNode::covering_element of the root of file f: the smallest element
\* whose range contains r
covering_element(f, r) == db.cover[f][r]

\* first element of a sequence satisfying a predicate, NoNode if none (find)
Find(seq, P(_)) ==
    LET hits == SelectSeq(seq, P) IN IF hits = <<>> THEN NoNode ELSE Head(hits)

AnyOf(seq, P(_)) == \E i \in DOMAIN seq : P(seq[i])

ToSet(seq) == {seq[i] : i \in DOMAIN seq}

\* algo::find_node_at_range::<N>: first ancestor of the covering element of kind N
find_node_at_range(f, r, kinds) ==
    LET ce == covering_element(f, r)
        IsN(id) == IsNode(id) /\ kind(id) \in kinds
    IN  Find(ancestors(ce), IsN)

\* ast::Item::cast
ItemKinds == {"CONST", "ENUM", "EXTERN_BLOCK", "EXTERN_CRATE", "FN", "IMPL",
              "MACRO_CALL", "MACRO_RULES", "MACRO_DEF", "MODULE", "STATIC",
              "STRUCT", "TRAIT", "TYPE_ALIAS", "UNION", "USE"}

IsItem(id) == IsNode(id) /\ kind(id) \in ItemKinds

\* ctx.file_id(): the selection is in the first file
CurrFile == 1

FileLen(f) == Tab[<<f>>].e

\* the token whose range starts at offset i of file f
TokenAt(f, i) == CHOOSE id \in DOMAIN Tab : file_of(id) = f /\ El(id).tok /\ El(id).s = i

\* ------------------------------------------------------------------------
\* Semantic index (hir / ide_db): Definitions, their sources and usages
\* ------------------------------------------------------------------------
AllIds == DOMAIN Tab

\* the Definitions named in a snapshot
DefsOf(T) == {T[id].d : id \in DOMAIN T} \ {NoDef}

\* sorts a set of elements of one file into text (preorder) order
InOrder(T, S) ==
    LET Before(a, b) == T[a].s < T[b].s \/ (T[a].s = T[b].s /\ Len(a) < Len(b))
    IN  [i \in 1..Cardinality(S) |->
            CHOOSE a \in S : Cardinality({b \in S : Before(b, a)}) = i - 1]

\* the parent of the one element of a set of NAME nodes, NoNode for the empty set
DeclOfNames(names) ==
    IF names = {} THEN <<>>
    ELSE SubSeq(CHOOSE id \in names : TRUE, 1, Len(CHOOSE id \in names : TRUE) - 1)

\* the source of every Definition: the declaration node whose NAME introduces it
DeclTable(T) ==
    [def \in DefsOf(T) |->
        DeclOfNames({id \in DOMAIN T : /\ T[id].k = "NAME" /\ T[id].d = def
                                        /\ T[SubSeq(id, 1, Len(id) - 1)].k # "RENAME"})]

\* the references to every Definition, per file, in text order
UsageTable(T) ==
    [def \in DefsOf(T) |->
        [f \in FilesOf(T) |->
            InOrder(T, {id \in DOMAIN T :
                          id[1] = f /\ T[id].k = "NAME_REF" /\ T[id].d = def})]]

\* the analysis database over the trees T: the parsed files and the semantic index
DatabaseOf(T) ==
    [tree |-> T, cover |-> CoverTable(T), desc |-> DescTable(T),
     decl |-> DeclTable(T), usages |-> UsageTable(T)]

\* the analysis database of project p
Database(p) == DatabaseOf(TableOf(Projects[p]))

\* sema.to_def(item): the Definition introduced by a declaration node
to_def(item) ==
    LET IsName(c) == kind(c) = "NAME"
        nm == Find(children(item), IsName)
    IN  IF nm = NoNode THEN NoDef ELSE El(nm).d

\* the declaration (source) of a Definition, NoNode if it is not in the project
DeclOf(def) == IF def = NoDef THEN NoNode ELSE db.decl[def]

\* the variant of ide_db::defs::Definition
DefKind(def) ==
    LET decl == DeclOf(def)
        k == IF decl = NoNode THEN "" ELSE kind(decl)
    IN  CASE k = "MODULE" -> "Module"
          [] k = "FN" -> "Function"
          [] k \in {"STRUCT", "ENUM", "UNION"} -> "Adt"
          [] k = "VARIANT" -> "Variant"
          [] k = "CONST" -> "Const"
          [] k = "STATIC" -> "Static"
          [] k = "TRAIT" -> "Trait"
          [] k = "TYPE_ALIAS" -> "TypeAlias"
          [] k \in {"MACRO_RULES", "MACRO_DEF"} -> "Macro"
          [] k = "RECORD_FIELD" -> "Field"
          [] OTHER -> "Other"

\* Definition::usages(sema).all() restricted to one file: the FileReferences,
\* in text order; a FileReference is the NAME_REF node (range and name)
UsagesInFile(def, f) == db.usages[def][f]

Files == DOMAIN db.cover

\* the files of a set, ascending (iteration order of the per-file usage map)
RECURSIVE FileSeq(_)
FileSeq(S) ==
    IF S = {} THEN <<>>
    ELSE LET m == CHOOSE a \in S : \A b \in S : a <= b IN <<m>> \o FileSeq(S \ {m})

\* ------------------------------------------------------------------------
\* Module::get_usage_to_be_processed, expand_and_group_usages_file_wise,
\* get_usages_and_record_fields
\* ------------------------------------------------------------------------
NoUsage == [file |-> 0, range |-> NoRange, text |-> <<>>]

\* get_usage_to_be_processed without the test of line 343 that keeps the
\* usages inside the selection out
get_usage_to_be_processed_unfiltered(m, f, usage) ==
    LET path == find_node_at_range(f, text_range(usage), {"PATH"})
        Hit(desc) == /\ to_string(desc) = to_string(usage)
                     /\ kind(desc) = "NAME_REF"
        name_ref == IF path = NoNode THEN NoNode ELSE Find(descendants(path), Hit)
    IN  IF name_ref = NoNode THEN NoUsage
        ELSE [file |-> f, range |-> text_range(name_ref),
              text |-> <<m.name, "::">> \o to_string(name_ref)]

\* variant of get_usage_to_be_processed that records every usage under the
\* file of the selection
get_usage_to_be_processed_in_curr_file(m, f, usage) ==
    LET path == find_node_at_range(f, text_range(usage), {"PATH"})
        Hit(desc) == /\ to_string(desc) = to_string(usage)
                     /\ ~contains_range(m.text_range, text_range(desc))
                     /\ kind(desc) = "NAME_REF"
        name_ref == IF path = NoNode THEN NoNode ELSE Find(descendants(path), Hit)
    IN  IF name_ref = NoNode THEN NoUsage
        ELSE [file |-> CurrFile, range |-> text_range(name_ref),
              text |-> <<m.name, "::">> \o to_string(name_ref)]

get_usage_to_be_processed(m, f, usage) ==
    LET path == find_node_at_range(f, text_range(usage), {"PATH"})
        Hit(desc) == /\ to_string(desc) = to_string(usage)
                     /\ ~contains_range(m.text_range, text_range(desc))
                     /\ kind(desc) = "NAME_REF"
        name_ref == IF path = NoNode THEN NoNode ELSE Find(descendants(path), Hit)
    IN  IF name_ref = NoNode THEN NoUsage
        ELSE [file |-> f, range |-> text_range(name_ref),
              text |-> <<m.name, "::">> \o to_string(name_ref)]

\* the usages of one Definition to be rewritten, file by file
expand_and_group_usages_file_wise(m, node_def) ==
    LET RECURSIVE PerFile(_)
        PerFile(fs) ==
            IF fs = <<>> THEN <<>>
            ELSE LET refs == UsagesInFile(node_def, Head(fs))
                     all == [i \in DOMAIN refs |-> get_usage_to_be_processed(m, Head(fs), refs[i])]
                     Kept(u) == u # NoUsage
                 IN  SelectSeq(all, Kept) \o PerFile(Tail(fs))
    IN  PerFile(FileSeq(Files))

\* the kinds of body items whose usages are rewritten (match_ast arms)
UsageItemKinds == {"STRUCT", "ENUM", "UNION", "TYPE_ALIAS", "CONST", "STATIC", "FN",
                   "MACRO_RULES", "MACRO_DEF"}

\* the record / tuple fields of a struct, the record fields of a union
FieldsOf(item) ==
    LET IsFieldList(c) == kind(c) \in (IF kind(item) = "STRUCT"
                                       THEN {"RECORD_FIELD_LIST", "TUPLE_FIELD_LIST"}
                                       ELSE {"RECORD_FIELD_LIST"})
        fl == Find(children(item), IsFieldList)
        IsField(c) == kind(c) \in {"RECORD_FIELD", "TUPLE_FIELD"}
    IN  IF kind(item) \notin {"STRUCT", "UNION"} \/ fl = NoNode THEN <<>>
        ELSE SelectSeq(children(fl), IsField)

\* returns [refs: the usages to be processed, adt_fields]
get_usages_and_record_fields(m) ==
    LET RECURSIVE Go(_)
        Go(i) ==
            IF i > Len(m.body_items) THEN [refs |-> <<>>, adt_fields |-> <<>>]
            ELSE LET item == m.body_items[i]
                     rest == Go(i + 1)
                 IN  IF kind(item) \in UsageItemKinds /\ to_def(item) # NoDef
                     THEN [refs |-> expand_and_group_usages_file_wise(m, to_def(item)) \o rest.refs,
                           adt_fields |-> FieldsOf(item) \o rest.adt_fields]
                     ELSE rest
    IN  Go(1)


\* ------------------------------------------------------------------------
\* Visibility: get_replacements_for_visibilty_change, add_change_vis,
\* Module::change_visibility
\* ------------------------------------------------------------------------
\* HasVisibility::visibility(): the VISIBILITY child, NoNode if there is none
visibility(id) ==
    LET IsVis(c) == kind(c) = "VISIBILITY" IN Find(children(id), IsVis)

\* ast::Impl::for_token
for_token(impl) ==
    LET IsFor(c) == kind(c) = "FOR_KW" IN Find(children_with_tokens(impl), IsFor)

VisItemKinds == {"CONST", "ENUM", "EXTERN_CRATE", "FN", "MACRO_DEF", "MODULE", "STATIC",
                 "STRUCT", "TRAIT", "TYPE_ALIAS", "UNION"}

\* variant of get_replacements_for_visibilty_change that lists an enum among
\* the owners of record fields, like a struct or a union
get_replacements_for_visibilty_change_with_enum(items) ==
    LET Repl(it) == kind(it) \in VisItemKinds
        Owner(it) == kind(it) \in {"STRUCT", "UNION", "ENUM"}
        InherentImpl(it) == kind(it) = "IMPL" /\ for_token(it) = NoNode
    IN  [replacements |-> SelectSeq(items, Repl),
         record_field_parents |-> SelectSeq(items, Owner),
         impls |-> SelectSeq(items, InherentImpl)]

get_replacements_for_visibilty_change(items) ==
    LET Repl(it) == kind(it) \in VisItemKinds
        Owner(it) == kind(it) \in {"STRUCT", "UNION"}
        InherentImpl(it) == kind(it) = "IMPL" /\ for_token(it) = NoNode
    IN  [replacements |-> SelectSeq(items, Repl),
         record_field_parents |-> SelectSeq(items, Owner),
         impls |-> SelectSeq(items, InherentImpl)]

\* the tokens before which pub(crate) goes
AnchorKinds == {"FN_KW", "STRUCT_KW", "ENUM_KW", "TRAIT_KW", "TYPE_KW", "MOD_KW", "NAME"}

\* variant of add_change_vis that inserts the modifier whatever `vis` is
add_change_vis_always(vis, node_or_token_opt) ==
    IF node_or_token_opt # NoNode THEN <<node_or_token_opt>> ELSE <<>>

\* the elements before which ted::insert puts a pub(crate): none or one
add_change_vis(vis, node_or_token_opt) ==
    IF vis = NoNode /\ node_or_token_opt # NoNode THEN <<node_or_token_opt>> ELSE <<>>

\* the elements that receive a pub(crate), in insertion order
change_visibility(m, record_fields) ==
    LET first == get_replacements_for_visibilty_change(m.body_items)
        RECURSIVE ImplItems(_)
        ImplItems(i) ==
            IF i > Len(first.impls) THEN <<>>
            ELSE SelectSeq(descendants(first.impls[i]), IsItem) \o ImplItems(i + 1)
        second == get_replacements_for_visibilty_change(ImplItems(1))
        IsPresent(desc) ==
            /\ kind(desc) = "RECORD_FIELD"
            /\ \E i \in DOMAIN record_fields : to_string(record_fields[i]) = to_string(desc)
        RECURSIVE Fields(_)
        Fields(i) ==
            IF i > Len(first.record_field_parents) THEN <<>>
            ELSE SelectSeq(descendants(first.record_field_parents[i]), IsPresent) \o Fields(i + 1)
        replacements == first.replacements \o second.replacements \o Fields(1)
        IsAnchor(c) == kind(c) \in AnchorKinds
        RECURSIVE Apply(_)
        Apply(i) ==
            IF i > Len(replacements) THEN <<>>
            ELSE add_change_vis(visibility(replacements[i]),
                                Find(children_with_tokens(replacements[i]), IsAnchor))
                 \o Apply(i + 1)
    IN  Apply(1)


\* ------------------------------------------------------------------------
\* Import resolution
\* ------------------------------------------------------------------------
\* identifiers and keywords whose text contains "super" / "crate"
SuperTexts == {"super", "superb"}

CrateTexts == {"crate"}

\* String::contains on the rendered text of a path
ContainsSuper(text) == \E i \in DOMAIN text : text[i] \in SuperTexts

ContainsCrate(text) == \E i \in DOMAIN text : text[i] \in CrateTexts

\* make::ext::ident_path("super")
SuperPath == <<"super">>

\* make::join_paths: the paths joined by `::`
RECURSIVE join_paths(_)
join_paths(paths) ==
    IF paths = <<>> THEN <<>>
    ELSE IF Len(paths) = 1 THEN Head(paths)
    ELSE Head(paths) \o <<"::">> \o join_paths(Tail(paths))

Reverse(seq) == [i \in DOMAIN seq |-> seq[Len(seq) + 1 - i]]

\* a use item made by make::use_ from a path
Made(path) == [made |-> TRUE, id |-> NoNode, path |-> path]

\* ast::UseTree::path
use_tree_path(use_tree) ==
    LET IsPath(c) == kind(c) = "PATH" IN Find(children(use_tree), IsPath)

\* the paths pushed by get_use_tree_paths_from_path, in push order
RECURSIVE get_use_tree_paths_from_path(_)
get_use_tree_paths_from_path(path) ==
    LET Upper(x) == /\ to_string(x) # to_string(path)
                    /\ kind(x) = "USE_TREE"
                    /\ use_tree_path(x) # NoNode
                    /\ to_string(use_tree_path(x)) # to_string(path)
        use_tree == Find(ancestors(path), Upper)
    IN  IF use_tree = NoNode THEN <<>>
        ELSE <<use_tree_path(use_tree)>> \o get_use_tree_paths_from_path(use_tree_path(use_tree))

\* the sibling elements of an element in a direction, the element itself first
siblings_with_tokens(id, dir) ==
    LET i == id[Len(id)]
        p == parent(id)
    IN  IF p = NoNode THEN <<id>>
        ELSE IF dir = "Next" THEN [j \in 1..(El(p).n - i + 1) |-> Append(p, i + j - 1)]
        ELSE [j \in 1..i |-> Append(p, i + 1 - j)]

\* remove_unused_param::range_to_remove: the range of a node extended to the
\* next comma and the whitespace after it, or else to the previous comma
range_to_remove(n) ==
    LET IsComma(x) == kind(x) = "COMMA"
        nextc == Find(siblings_with_tokens(n, "Next"), IsComma)
        prevc == Find(siblings_with_tokens(n, "Prev"), IsComma)
        dir == IF nextc # NoNode THEN "Next" ELSE "Prev"
        token == IF nextc # NoNode THEN nextc ELSE prevc
        has_next_sibling == AnyOf(Tail(siblings_with_tokens(n, "Next")), IsNode)
        after == Tail(siblings_with_tokens(token, dir))
        RECURSIVE LastWs(_, _)
        LastWs(i, last) ==
            IF i > Len(after) \/ kind(after[i]) # "WHITESPACE" THEN last
            ELSE LastWs(i + 1, after[i])
        up_to_space == LastWs(1, NoNode)
    IN  IF token = NoNode THEN text_range(n)
        ELSE IF has_next_sibling
             THEN cover(text_range(n),
                        IF up_to_space = NoNode THEN text_range(token)
                        ELSE text_range(up_to_space))
             ELSE cover(text_range(n), text_range(token))

NoUseTree == [found |-> FALSE, use_tree_str |-> <<>>, range |-> NoRange]

\* returns the collected paths (as texts, innermost first) and the range to remove
process_use_stmt_for_import_resolve(use_stmt_opt, node_text) ==
    LET IsSeg(desc) == kind(desc) = "PATH_SEGMENT" /\ to_string(desc) = node_text
        path_seg == IF use_stmt_opt = NoNode THEN NoNode
                    ELSE Find(descendants(use_stmt_opt), IsSeg)
        paths == <<parent(path_seg)>> \o get_use_tree_paths_from_path(parent(path_seg))
        SameTree(ancs) == kind(ancs) = "USE_TREE" /\ to_string(ancs) = node_text
        use_tree == Find(ancestors(path_seg), SameTree)
    IN  IF path_seg = NoNode THEN NoUseTree
        ELSE [found |-> TRUE,
              use_tree_str |-> [i \in DOMAIN paths |-> to_string(paths[i])],
              range |-> IF use_tree = NoNode THEN NoRange ELSE range_to_remove(use_tree)]

\* the use items after Module::make_use_stmt_of_node_with_super
make_use_stmt_of_node_with_super(use_items, node_text) ==
    <<Made(join_paths(<<SuperPath, node_text>>))>> \o use_items


\* hir: the module a declaration belongs to (nearest enclosing MODULE node,
\* or the root of its file)
HirModuleOf(decl) ==
    LET up == Tail(ancestors(decl))
        IsMod(x) == kind(x) = "MODULE"
        m == Find(up, IsMod)
    IN  IF m # NoNode THEN m ELSE <<file_of(decl)>>

\* hir::Module::name: the crate root has none; a file module carries it in d
HirModuleName(m) ==
    IF kind(m) = "MODULE" THEN to_string(Find(children(m), LAMBDA c : kind(c) = "NAME"))
    ELSE IF El(m).d = NoDef THEN <<>> ELSE <<El(m).d>>

\* compare_hir_and_ast_module(..).is_some()
compare_hir_and_ast_module(ast_module, hir_module) ==
    LET hir_mod_name == HirModuleName(hir_module)
        IsName(c) == kind(c) = "NAME"
        ast_mod_name == Find(children(ast_module), IsName)
    IN  /\ hir_mod_name # <<>>
        /\ ast_mod_name # NoNode
        /\ hir_mod_name = to_string(ast_mod_name)

SourceKinds == {"Function", "Adt", "Variant", "Const", "Static", "Trait", "TypeAlias"}

\* variant of does_source_exists_outside_sel_in_same_mod without the tests of the
\* declaration's range against the selection
does_source_exists_in_same_mod(def, cpm, selection_range, curr_file_id) ==
    LET decl == DeclOf(def)
        dk == DefKind(def)
        inline == AnyOf(children(decl), LAMBDA c : kind(c) = "ITEM_LIST")
        have_same_parent ==
            IF cpm # NoNode THEN compare_hir_and_ast_module(cpm, HirModuleOf(decl))
            ELSE file_of(decl) = curr_file_id
    IN  IF decl = NoNode THEN FALSE
        ELSE IF dk = "Module" THEN have_same_parent /\ inline
        ELSE IF dk \in SourceKinds THEN have_same_parent
        ELSE FALSE

\* variant of does_source_exists_outside_sel_in_same_mod with an arm for
\* Definition::Macro like the arms of the other kinds
does_source_exists_outside_sel_in_same_mod_with_macro(def, cpm, selection_range, curr_file_id) ==
    LET decl == DeclOf(def)
        dk == DefKind(def)
        in_file == file_of(decl) = curr_file_id
        inline == AnyOf(children(decl), LAMBDA c : kind(c) = "ITEM_LIST")
        have_same_parent ==
            IF cpm # NoNode THEN compare_hir_and_ast_module(cpm, HirModuleOf(decl))
            ELSE in_file
    IN  IF decl = NoNode THEN FALSE
        ELSE IF dk = "Module"
             THEN have_same_parent /\ inline
                  /\ ~contains_range(selection_range, text_range(decl))
        ELSE IF dk \in SourceKinds \cup {"Macro"}
             THEN have_same_parent /\ ~contains_range(selection_range, text_range(decl))
        ELSE FALSE

does_source_exists_outside_sel_in_same_mod(def, cpm, selection_range, curr_file_id) ==
    LET decl == DeclOf(def)
        dk == DefKind(def)
        in_file == file_of(decl) = curr_file_id
        inline == AnyOf(children(decl), LAMBDA c : kind(c) = "ITEM_LIST")
        have_same_parent ==
            IF cpm # NoNode THEN compare_hir_and_ast_module(cpm, HirModuleOf(decl))
            ELSE in_file
    IN  IF decl = NoNode THEN FALSE
        ELSE IF dk = "Module"
             THEN have_same_parent /\ inline
                  /\ ~contains_range(selection_range, text_range(decl))
        ELSE IF dk \in SourceKinds
             THEN have_same_parent /\ ~contains_range(selection_range, text_range(decl))
        ELSE FALSE

\* lines 566-613: the paths of the existing import for the new module, outermost
\* first, from the paths collected innermost first; a `super` is pushed at line 583
\* and prepended at line 604
ImportPathFor(use_tree_str, only_inside_same_mod) ==
    LET first == use_tree_str[Len(use_tree_str)]
        pushed_super ==
            IF only_inside_same_mod /\ ~ContainsSuper(first) /\ ~ContainsCrate(first)
            THEN Append(use_tree_str, SuperPath) ELSE use_tree_str
    IN  IF ~only_inside_same_mod /\ ContainsSuper(first)
        THEN <<SuperPath>> \o Reverse(pushed_super) ELSE Reverse(pushed_super)

\* the decision of lines 545-616 without the test of exists_inside_sel in the
\* first row (line 546)
ImportDecision_without_inside_test(use_items, f, u, node_text) ==
    LET both == f.exists_outside_sel
        only_inside == f.exists_inside_sel /\ ~f.exists_outside_sel
    IN  IF (both \/ only_inside) /\ u.found
        THEN [use_items |->
                  <<Made(join_paths(ImportPathFor(u.use_tree_str,
                        only_inside /\ f.source_exists_outside_sel_in_same_mod)))>>
                  \o use_items,
              range |-> IF only_inside THEN u.range ELSE NoRange,
              facts |-> f]
        ELSE IF (both \/ only_inside) /\ f.source_exists_outside_sel_in_same_mod
        THEN [use_items |-> make_use_stmt_of_node_with_super(use_items, node_text),
              range |-> NoRange, facts |-> f]
        ELSE [use_items |-> use_items, range |-> NoRange, facts |-> f]

\* lines 545-616 of process_names_and_namerefs_for_import_resolve: the decision,
\* given the facts f gathered about the symbol and the result u of
\* process_use_stmt_for_import_resolve.  Returns the use items of the module,
\* the range of the import to be removed (NoRange: None), and the facts.
ImportDecision(use_items, f, u, node_text) ==
    LET both == f.exists_inside_sel /\ f.exists_outside_sel
        only_inside == f.exists_inside_sel /\ ~f.exists_outside_sel
    IN  IF (both \/ only_inside) /\ u.found
        THEN [use_items |->
                  <<Made(join_paths(ImportPathFor(u.use_tree_str,
                        only_inside /\ f.source_exists_outside_sel_in_same_mod)))>>
                  \o use_items,
              range |-> IF only_inside THEN u.range ELSE NoRange,
              facts |-> f]
        ELSE IF (both \/ only_inside) /\ f.source_exists_outside_sel_in_same_mod
        THEN [use_items |-> make_use_stmt_of_node_with_super(use_items, node_text),
              range |-> NoRange, facts |-> f]
        ELSE [use_items |-> use_items, range |-> NoRange, facts |-> f]

\* lines 485-530: the facts about one symbol in the current file
ImportFacts(def, cpm, selection_range) ==
    LET refs == UsagesInFile(def, CurrFile)
        use_of == [i \in DOMAIN refs |-> find_node_at_range(CurrFile, text_range(refs[i]), {"USE"})]
        path_of == [i \in DOMAIN refs |->
                       IF use_of[i] # NoNode THEN NoNode
                       ELSE find_node_at_range(CurrFile, text_range(refs[i]), {"PATH"})]
        IsSome(x) == x # NoNode
        non_use_nodes == SelectSeq(path_of, IsSome)
        in_use == SelectSeq(use_of, IsSome)
    IN  [exists_outside_sel |->
             \E i \in DOMAIN non_use_nodes :
                 ~contains_range(selection_range, text_range(non_use_nodes[i])),
         exists_inside_sel |->
             \E i \in DOMAIN non_use_nodes :
                 contains_range(selection_range, text_range(non_use_nodes[i])),
         source_exists_outside_sel_in_same_mod |->
             does_source_exists_outside_sel_in_same_mod(def, cpm, selection_range, CurrFile),
         use_stmt_opt |-> IF in_use = <<>> THEN NoNode ELSE in_use[Len(in_use)]]

\* lines 531-616 once the facts f are known
ImportWithFacts(use_items, f, node_text) ==
    ImportDecision(use_items, f,
                   process_use_stmt_for_import_resolve(f.use_stmt_opt, node_text), node_text)

\* returns the use items, the range of the import to remove, and the facts
process_names_and_namerefs_for_import_resolve(use_items, def, node_syntax, cpm, selection_range) ==
    ImportWithFacts(use_items, ImportFacts(def, cpm, selection_range), to_string(node_syntax))

\* the deletion list after check_intersection_and_push
check_intersection_and_push(list, import_path) ==
    LET hits == {i \in DOMAIN list : intersect(list[i], import_path) # NoRange}
        it == CHOOSE i \in hits : \A j \in hits : i <= j
    IN  IF hits # {} THEN [list EXCEPT ![it] = cover(list[it], import_path)]
        ELSE Append(list, import_path)

\* lines 417-436 and 446-465: the state of resolve_imports after the symbol x
\* was processed with result r
Resolved(st, x, r) ==
    [use_items |-> r.use_items,
     node_set |-> st.node_set \cup {to_string(x)},
     removed |-> IF r.range # NoRange
                 THEN check_intersection_and_push(st.removed, r.range)
                 ELSE st.removed,
     pushed |-> IF r.range # NoRange THEN Append(st.pushed, r.range) ELSE st.pushed,
     log |-> Append(st.log,
                [def |-> El(x).d, text |-> to_string(x), facts |-> r.facts,
                 added |-> SubSeq(r.use_items, 1, Len(r.use_items) - Len(st.use_items)),
                 range |-> r.range])]

\* Module::resolve_imports: returns the use items of the module and the
\* import paths to be removed (with a log of the symbols processed)
resolve_imports(m, cpm, selection_range) ==
    LET RECURSIVE Cat(_)
        Cat(i) == IF i > Len(m.body_items) THEN <<>>
                  ELSE descendants(m.body_items[i]) \o Cat(i + 1)
        xs == Cat(1)
        RECURSIVE Go(_, _)
        Go(i, st) ==
            IF i > Len(xs) THEN st
            ELSE LET x == xs[i]
                     classified == kind(x) \in {"NAME", "NAME_REF"} /\ El(x).d # NoDef
                 IN  IF classified /\ to_string(x) \notin st.node_set
                     THEN Go(i + 1,
                             Resolved(st, x, process_names_and_namerefs_for_import_resolve(
                                                 st.use_items, El(x).d, x, cpm, selection_range)))
                     ELSE Go(i + 1, st)
    IN  Go(1, [use_items |-> m.use_items, node_set |-> {}, removed |-> <<>>,
               pushed |-> <<>>, log |-> <<>>])

\* ------------------------------------------------------------------------
\* extract_target
\* ------------------------------------------------------------------------
NoModule == [text_range |-> NoRange, name |-> "", body_items |-> <<>>, use_items |-> <<>>]

Plain(id) == [made |-> FALSE, id |-> id, path |-> <<>>]

extract_target(n, selection_range) ==
    LET InSel(c) == contains_range(selection_range, text_range(c))
        selected_nodes == SelectSeq(children(n), InSel) \o <<n>>
        items == SelectSeq(selected_nodes, IsItem)
        IsUse(id) == kind(id) = "USE"
        NotUse(id) == kind(id) # "USE"
        use_ids == SelectSeq(items, IsUse)
    IN  [text_range |-> selection_range, name |-> "modname",
         body_items |-> SelectSeq(items, NotUse),
         use_items |-> [i \in DOMAIN use_ids |-> Plain(use_ids[i])]]

\* ------------------------------------------------------------------------
\* extract_module, up to the registration of the assist
\* ------------------------------------------------------------------------
\* node.parent().parent() cast to ast::Impl
ImplParentOf(n) ==
    IF parent(n) # NoNode /\ parent(parent(n)) # NoNode /\ kind(parent(parent(n))) = "IMPL"
    THEN parent(parent(n)) ELSE NoNode

IsModule(id) == kind(id) = "MODULE"

\* AssistContext::has_empty_selection (line 57)
has_empty_selection(r) == is_empty(r)

\* variant of NotApplicable without the test of the body items
NotApplicable_without_body_test(selection_is_empty, body_items) == selection_is_empty

\* the two early `return None` of extract_module (lines 57-59 and 87-89)
NotApplicable(selection_is_empty, body_items) ==
    selection_is_empty \/ body_items = <<>>

ExtractModule ==
    /\ pc = "start"
    /\ LET ce == covering_element(CurrFile, sel)
           n == IF El(ce).tok THEN parent(ce) ELSE ce
           m == extract_target(n, sel)
       IN  IF NotApplicable(has_empty_selection(sel), m.body_items)
           THEN /\ pc' = "none"
                /\ UNCHANGED <<acc, node, impl_parent, impl_child_count,
                               curr_parent_module, module>>
           ELSE /\ pc' = "registered"
                /\ node' = n
                /\ impl_parent' = ImplParentOf(n)
                /\ impl_child_count' =
                       IF ImplParentOf(n) # NoNode THEN Len(children(parent(n))) ELSE 0
                /\ curr_parent_module' = Find(ancestors(n), IsModule)
                /\ module' = m
                /\ acc' = Append(acc, [id |-> "extract_module", target |-> m.text_range])
    /\ UNCHANGED <<snap, db, sel, edits, vis_inserted, import_paths_to_be_removed, module_def, import_log, pushed>>

\* ------------------------------------------------------------------------
\* extract_module: the edit closure handed to acc.add (lines 97-206)
\* ------------------------------------------------------------------------
\* variant of self_ty that takes the first type of the block whatever follows
self_ty_first(impl) ==
    LET IsTy(c) == kind(c) = "PATH_TYPE"
        tys == SelectSeq(children(impl), IsTy)
    IN  IF tys = <<>> THEN NoNode ELSE tys[1]

\* ast::Impl::self_ty: the type after `for`, or else the first type
self_ty(impl) ==
    LET IsTy(c) == kind(c) = "PATH_TYPE"
        tys == SelectSeq(children(impl), IsTy)
    IN  IF tys = <<>> THEN NoNode
        ELSE IF for_token(impl) # NoNode /\ Len(tys) > 1 THEN tys[2] ELSE tys[1]

\* indent_range_before_given_node: NoRange is None
indent_range_before_given_node(n) ==
    LET IsWs(x) == kind(x) = "WHITESPACE"
        ws == Find(siblings_with_tokens(n, "Prev"), IsWs)
    IN  IF ws = NoNode THEN NoRange ELSE text_range(ws)

\* the text of an element after the pub(crate) insertions
RECURSIVE RenderEl(_, _)
RenderEl(id, inserted) ==
    LET times == Cardinality({i \in DOMAIN inserted : inserted[i] = id})
        pre == [i \in 1..times |-> "pub(crate)"]
        RECURSIVE Cat(_)
        Cat(i) == IF i > El(id).n THEN <<>>
                  ELSE RenderEl(Append(id, i), inserted) \o Cat(i + 1)
    IN  pre \o (IF El(id).tok THEN to_string(id) ELSE Cat(1))

RenderUse(item) ==
    IF item.made THEN <<"use">> \o item.path \o <<";">> ELSE to_string(item.id)

\* module_def of lines 117-163, without indentation and blank lines
RenderModule(name, use_items, body_items, impl, inserted) ==
    LET RECURSIVE Items(_)
        Items(i) == IF i > Len(body_items) THEN <<>>
                    ELSE RenderEl(body_items[i], inserted) \o Items(i + 1)
        RECURSIVE Uses(_, _)
        Uses(us, i) == IF i > Len(us) THEN <<>> ELSE RenderUse(us[i]) \o Uses(us, i + 1)
        body == IF impl = NoNode THEN Uses(use_items, 1) \o Items(1)
                ELSE IF self_ty(impl) = NoNode THEN Items(1)
                ELSE Uses(Reverse(use_items), 1)
                     \o <<"impl">> \o to_string(self_ty(impl)) \o <<"{">> \o Items(1) \o <<"}">>
    IN  <<"mod", name, "{">> \o body \o <<"}">>

Replace(f, r, text) == [file |-> f, op |-> "replace", range |-> r, text |-> text]

Delete(f, r) == [file |-> f, op |-> "delete", range |-> r, text |-> <<>>]

Insert(f, at, text) == [file |-> f, op |-> "insert", range |-> Range(at, at), text |-> text]

\* lines 165-204: the edits, once the module text is known
EmitEdits(u, ri, inserted, use_items, text) ==
    LET Other(r) == r.file # CurrFile
        Curr(r) == r.file = CurrFile
        AsReplace(rs) == [i \in DOMAIN rs |-> Replace(rs[i].file, rs[i].range, rs[i].text)]
        deletes == [i \in DOMAIN ri.removed |-> Delete(CurrFile, ri.removed[i])]
        node_to_be_removed == IF impl_child_count = 1 THEN impl_parent ELSE node
        indent == indent_range_before_given_node(node_to_be_removed)
        last == IF impl_parent # NoNode
                THEN <<Delete(CurrFile, text_range(node_to_be_removed))>>
                     \o (IF indent # NoRange THEN <<Delete(CurrFile, indent)>> ELSE <<>>)
                     \o <<Insert(CurrFile, text_range(impl_parent).e, text)>>
                ELSE <<Replace(CurrFile, module.text_range, text)>>
    IN  /\ module' = [module EXCEPT !.use_items = use_items]
        /\ vis_inserted' = inserted
        /\ import_paths_to_be_removed' = ri.removed
        /\ module_def' = text
        /\ import_log' = ri.log
        /\ pushed' = ri.pushed
        /\ edits' = AsReplace(SelectSeq(u.refs, Other)) \o AsReplace(SelectSeq(u.refs, Curr))
                    \o deletes \o last

\* lines 117-163: the text of the new module from the final use items
WithUseItems(u, ri, inserted, use_items) ==
    EmitEdits(u, ri, inserted, use_items,
              RenderModule(module.name, use_items, module.body_items, impl_parent, inserted))

\* lines 139-152: in the hosted case the self type gets a `use super::..`
MakeModuleDef(u, ri, inserted) ==
    WithUseItems(u, ri, inserted,
                 IF impl_parent # NoNode /\ self_ty(impl_parent) # NoNode
                 THEN make_use_stmt_of_node_with_super(
                          ri.use_items, to_string(self_ty(impl_parent)))
                 ELSE ri.use_items)

\* lines 106-115: resolve_imports and change_visibility, given the usages
WithUsages(u) ==
    MakeModuleDef(u, resolve_imports(module, curr_parent_module, sel),
                  change_visibility(module, u.adt_fields))

RunBuilder ==
    /\ pc = "registered"
    /\ WithUsages(get_usages_and_record_fields(module))
    /\ pc' = "built"
    /\ UNCHANGED <<snap, db, sel, acc, node, impl_parent, impl_child_count, curr_parent_module>>


\* ------------------------------------------------------------------------
\* Specification
\* ------------------------------------------------------------------------
\* a trimmed selection neither starts nor ends with whitespace
Trimmed(f, r) ==
    is_empty(r) \/ (kind(TokenAt(f, r.s)) # "WHITESPACE" /\ kind(TokenAt(f, r.e - 1)) # "WHITESPACE")

Init ==
    /\ snap \in DOMAIN Projects
    /\ db = Database(snap)
    /\ sel \in {r \in [s : 0..FileLen(CurrFile), e : 0..FileLen(CurrFile)] :
                  r.s <= r.e /\ Trimmed(CurrFile, r)}
    /\ pc = "start"
    /\ acc = <<>>
    /\ node = NoNode
    /\ impl_parent = NoNode
    /\ impl_child_count = 0
    /\ curr_parent_module = NoNode
    /\ module = NoModule
    /\ edits = <<>>
    /\ vis_inserted = <<>>
    /\ import_paths_to_be_removed = <<>>
    /\ module_def = <<>>
    /\ import_log = <<>>
    /\ pushed = <<>>

Next == ExtractModule \/ RunBuilder

Spec == Init /\ [][Next]_vars

\* ------------------------------------------------------------------------
\* Properties
\* ------------------------------------------------------------------------
\* the assist was registered (and possibly its edits built)
Registered == pc \in {"registered", "built"}

\* the node the selection resolves to (lines 61-65)
SelectedNode ==
    LET ce == covering_element(CurrFile, sel)
    IN  IF El(ce).tok THEN parent(ce) ELSE ce

\* C1: extract_module reports "not applicable" (no assist registered, no
\* edit scheduled) whenever the selection is empty or the body list computed
\* by extract_target is empty; in every other case exactly one assist is
\* registered.
C1_NotApplicableIffEmpty ==
    pc # "start" =>
        IF is_empty(sel) \/ extract_target(SelectedNode, sel).body_items = <<>>
        THEN pc = "none" /\ acc = <<>> /\ edits = <<>>
        ELSE Registered /\ Len(acc) = 1 /\ acc[1].id = "extract_module"

\* a non-empty selection that resolves to no body declaration was refused
C1_Witness ==
    /\ pc = "none"
    /\ ~is_empty(sel)
    /\ extract_target(SelectedNode, sel).body_items = <<>>

\* the declarations of the selection's file that lie wholly in the selection
DeclarationsIn(r) ==
    {id \in AllIds : file_of(id) = CurrFile /\ IsItem(id) /\ contains_range(r, text_range(id))}

\* C2: a trimmed selection that wholly contains no declaration is refused
\* with no edit, and every declaration placed in the Module's body or import
\* list has its text range contained in the selection range.
C2_OnlyWhollySelected ==
    /\ (pc # "start" /\ DeclarationsIn(sel) = {}) => (pc = "none" /\ edits = <<>>)
    /\ Registered =>
          /\ \A i \in DOMAIN module.body_items :
                 contains_range(sel, text_range(module.body_items[i]))
          /\ \A i \in DOMAIN module.use_items :
                 ~module.use_items[i].made =>
                     contains_range(sel, text_range(module.use_items[i].id))

\* ------------------------------------------------------------------------
\* Name resolution (the language's path resolution, which the semantic
\* collaborator implements): module scopes are sequences of module names
\* from the crate root; file 1 is the crate root.
\* ------------------------------------------------------------------------
NameText(decl) ==
    LET IsName(c) == kind(c) = "NAME"
        nm == Find(children(decl), IsName)
    IN  IF nm = NoNode THEN "?" ELSE to_string(nm)[1]

\* the module scope holding an element: the names of the modules around it
ScopeOf(id) ==
    LET mods == SelectSeq(Reverse(Tail(ancestors(id))), IsModule)
    IN  (IF file_of(id) = CurrFile THEN <<>> ELSE <<"file">>)
        \o [i \in DOMAIN mods |-> NameText(mods[i])]

\* the Definition named by the self type of an impl block
TypeDefOf(impl) ==
    LET IsRef(x) == kind(x) = "NAME_REF"
        refs == SelectSeq(descendants(self_ty(impl)), IsRef)
    IN  IF self_ty(impl) = NoNode \/ refs = <<>> THEN NoDef ELSE El(refs[Len(refs)]).d

\* the absolute path of a Definition before the refactor; an associated
\* item is addressed through the type of its impl block
RECURSIVE HomeBefore(_)
HomeBefore(def) ==
    LET decl == DeclOf(def)
    IN  IF decl = NoNode THEN <<"?">>
        ELSE IF ImplParentOf(decl) # NoNode
        THEN HomeBefore(TypeDefOf(ImplParentOf(decl))) \o <<NameText(decl)>>
        ELSE ScopeOf(decl) \o <<NameText(decl)>>

\* the module scope of the new module
NewScope == ScopeOf(node) \o <<module.name>>

\* the absolute path, after the refactor, of a Definition introduced by a
\* body item: inside the new module, or still through its (unmoved) type
HomeAfter(def) ==
    IF impl_parent # NoNode THEN HomeBefore(def)
    ELSE NewScope \o <<NameText(DeclOf(def))>>

\* the absolute path denoted by the segments of a path read in scope sc
RECURSIVE Up(_, _)
Up(sc, segs) ==
    IF segs # <<>> /\ Head(segs) = "super"
    THEN IF sc = <<>> THEN <<"?">> ELSE Up(SubSeq(sc, 1, Len(sc) - 1), Tail(segs))
    ELSE sc \o segs

AbsPath(sc, segs) ==
    IF segs = <<>> THEN sc
    ELSE IF Head(segs) = "crate" THEN Tail(segs)
    ELSE IF Head(segs) = "self" THEN Up(sc, Tail(segs))
    ELSE Up(sc, segs)

SegTexts(text) == SelectSeq(text, LAMBDA t : t # "::")

\* the text of an element once the Replace edits are applied
RECURSIVE TextAfter(_)
TextAfter(id) ==
    LET hits == {i \in DOMAIN edits : /\ edits[i].op = "replace"
                                      /\ edits[i].file = file_of(id)
                                      /\ edits[i].range = text_range(id)}
        RECURSIVE Cat(_)
        Cat(i) == IF i > El(id).n THEN <<>> ELSE TextAfter(Append(id, i)) \o Cat(i + 1)
    IN  IF kind(id) = "NAME_REF" /\ hits # {} THEN edits[CHOOSE i \in hits : TRUE].text
        ELSE IF El(id).tok THEN to_string(id) ELSE Cat(1)

\* the segments of the path that ends at a reference site, together with
\* the prefixes of the import groups around it; read after the edits or not
SitePathAt(site, after) ==
    LET IsPath(x) == kind(x) = "PATH"
        IsUseTree(x) == kind(x) = "USE_TREE"
        Text(x) == IF after THEN TextAfter(x) ELSE to_string(x)
        p == Find(ancestors(site), IsPath)
        trees == SelectSeq(ancestors(site), IsUseTree)
        outer == IF trees = <<>> THEN <<>> ELSE Reverse(Tail(trees))
        RECURSIVE Prefix(_)
        Prefix(i) == IF i > Len(outer) THEN <<>>
                     ELSE (IF use_tree_path(outer[i]) = NoNode THEN <<>>
                           ELSE SegTexts(Text(use_tree_path(outer[i]))))
                          \o Prefix(i + 1)
    IN  Prefix(1) \o SegTexts(Text(IF p = NoNode THEN site ELSE p))

SitePath(site) == SitePathAt(site, TRUE)

\* the selection is exactly a run of whole declarations: it starts where its
\* first moved declaration starts and ends where its last one ends
ExactSelection ==
    LET moved == {module.body_items[i] : i \in DOMAIN module.body_items}
                 \cup {module.use_items[i].id : i \in {j \in DOMAIN module.use_items :
                                                          ~module.use_items[j].made}}
    IN  /\ moved # {}
        /\ \A id \in moved : contains_range(sel, text_range(id))
        /\ \E id \in moved : text_range(id).s = sel.s
        /\ \E id \in moved : text_range(id).e = sel.e

\* the Definitions introduced by the moved declarations
MovedDefs == {to_def(module.body_items[i]) : i \in DOMAIN module.body_items} \ {NoDef}

\* the references to a Definition that lie outside the selection
OutsideSites(def) ==
    {id \in AllIds : /\ kind(id) = "NAME_REF"
                     /\ El(id).d = def
                     /\ ~(file_of(id) = CurrFile /\ contains_range(sel, text_range(id)))}

\* the site is removed by one of the scheduled deletions
Deleted(site) ==
    \E i \in DOMAIN edits : /\ edits[i].op = "delete"
                            /\ edits[i].file = file_of(site)
                            /\ contains_range(edits[i].range, text_range(site))

\* C3: round-trip reference integrity: for every Definition introduced by a
\* moved declaration (a member moved out of an impl block included) and every
\* reference to it outside the selection, the reference site, read after the
\* edits, resolves to the same Definition at its place after the refactor.
C3_RoundTripReferences ==
    (pc = "built" /\ ExactSelection) =>
        \A def \in MovedDefs : \A site \in OutsideSites(def) :
            ~Deleted(site) => AbsPath(ScopeOf(site), SitePath(site)) = HomeAfter(def)

\* C4: visibility monotonicity: the only visibility change is the insertion
\* of a crate-visible modifier in front of a declaration or field that had no
\* explicit visibility; a declaration or field with an explicit modifier gets
\* nothing inserted and keeps its modifier in the module text.
C4_VisibilityMonotone ==
    pc = "built" =>
        /\ \A i \in DOMAIN vis_inserted :
               /\ parent(vis_inserted[i]) # NoNode
               /\ visibility(parent(vis_inserted[i])) = NoNode
        /\ \A i \in DOMAIN module.body_items :
               \A x \in ToSet(descendants(module.body_items[i])) :
                   visibility(x) # NoNode =>
                       RenderEl(x, vis_inserted) = to_string(x)

\* a declaration and a field with explicit modifiers were moved together
\* with declarations that received the crate-visible modifier
C4_Witness ==
    /\ pc = "built"
    /\ vis_inserted # <<>>
    /\ \E i \in DOMAIN module.body_items : visibility(module.body_items[i]) # NoNode
    /\ \E i \in DOMAIN module.body_items :
           \E x \in ToSet(descendants(module.body_items[i])) :
               kind(x) = "RECORD_FIELD" /\ visibility(x) # NoNode

\* the element is a member of an impl block that implements a trait
TraitImplMember(x) ==
    ImplParentOf(x) # NoNode /\ for_token(ImplParentOf(x)) # NoNode

\* C5: no member of an impl block that implements a trait ever receives a
\* visibility modifier, whether the whole block is moved or the selection is
\* a single member of such a block.
C5_TraitImplMembersUntouched ==
    (pc = "built" /\ ExactSelection) =>
        \A i \in DOMAIN vis_inserted : ~TraitImplMember(parent(vis_inserted[i]))

\* ------------------------------------------------------------------------
\* check_intersection_and_push on its own: the deletion list under any
\* sequence of candidate ranges
\* ------------------------------------------------------------------------
MaxPos == 4

MaxPushes == 3

\* the candidate ranges: every non-empty TextRange over the positions
\* 0..MaxPos (the range of an import entry is never empty)
Candidates == {r \in [s : 0..MaxPos, e : 0..MaxPos] : r.s < r.e}

InitPush ==
    /\ snap = 4
    /\ db = Database(4)
    /\ sel = Range(0, 0)
    /\ pc = "push"
    /\ acc = <<>>
    /\ node = NoNode
    /\ impl_parent = NoNode
    /\ impl_child_count = 0
    /\ curr_parent_module = NoNode
    /\ module = NoModule
    /\ edits = <<>>
    /\ vis_inserted = <<>>
    /\ import_paths_to_be_removed = <<>>
    /\ module_def = <<>>
    /\ import_log = <<>>
    /\ pushed = <<>>

\* one call of check_intersection_and_push with a candidate range
Push ==
    /\ pc = "push"
    /\ Len(pushed) < MaxPushes
    /\ \E r \in Candidates :
           /\ import_paths_to_be_removed' =
                  check_intersection_and_push(import_paths_to_be_removed, r)
           /\ pushed' = Append(pushed, r)
    /\ UNCHANGED <<snap, db, sel, pc, acc, node, impl_parent, impl_child_count,
                   curr_parent_module, module, edits, vis_inserted, module_def, import_log>>

NextPush == Push

SpecPush == InitPush /\ [][NextPush]_vars

\* two ranges share at least one text position
Overlap(a, b) == Max(a.s, b.s) < Min(a.e, b.e)

\* C6: after any sequence of check_intersection_and_push calls with arbitrary
\* candidate ranges the deletion list is pairwise non-overlapping; two
\* adjacent candidates (the second starts where the first ends) yield one
\* merged range covering both.
C6_DeletionListDisjoint ==
    /\ \A i, j \in DOMAIN import_paths_to_be_removed :
           i # j => ~Overlap(import_paths_to_be_removed[i], import_paths_to_be_removed[j])
    /\ (Len(pushed) = 2 /\ pushed[1].e = pushed[2].s) =>
           import_paths_to_be_removed = <<cover(pushed[1], pushed[2])>>

\* the Replace and Delete edits of one file
RangeEdits(f) ==
    {i \in DOMAIN edits : edits[i].file = f /\ edits[i].op \in {"replace", "delete"}}

\* C7: for each file, the Replace and Delete ranges scheduled by one run
\* (usage replacements, import deletions, the replacement of the selection,
\* the member/block and whitespace deletions of the hosted case) are
\* pairwise non-overlapping.
C7_EditsDisjointPerFile ==
    (pc = "built" /\ ExactSelection) =>
        \A f \in Files : \A i, j \in RangeEdits(f) :
            i # j => ~Overlap(edits[i].range, edits[j].range)

\* ------------------------------------------------------------------------
\* Import resolution: the rows of the decision table
\* ------------------------------------------------------------------------
InUse(id) == AnyOf(ancestors(id), LAMBDA x : kind(x) = "USE")

InPath(id) == AnyOf(ancestors(id), LAMBDA x : kind(x) = "PATH")

\* the occurrences of a Definition in the selection's file outside imports
NonImportSites(def) ==
    {id \in AllIds : /\ file_of(id) = CurrFile
                     /\ kind(id) = "NAME_REF"
                     /\ El(id).d = def
                     /\ InPath(id)
                     /\ ~InUse(id)}

UsedInside(def) == \E site \in NonImportSites(def) : contains_range(sel, text_range(site))

UsedOutside(def) == \E site \in NonImportSites(def) : ~contains_range(sel, text_range(site))

\* the import entries of a Definition in the selection's file: the name
\* references at which the path of a use tree without a group ends
ImportSites(def) ==
    {id \in AllIds :
        /\ file_of(id) = CurrFile
        /\ kind(id) = "NAME_REF"
        /\ El(id).d = def
        /\ InUse(id)
        /\ LET t == Find(ancestors(id), LAMBDA x : kind(x) = "USE_TREE")
               p == Find(ancestors(id), LAMBDA x : kind(x) = "PATH")
           IN  /\ t # NoNode
               /\ use_tree_path(t) = p
               /\ ~AnyOf(children(t), LAMBDA c : kind(c) = "USE_TREE_LIST")}

\* an import declaration that names the Definition is itself inside the
\* selection
ImportMoved(def) ==
    \E id \in AllIds : /\ file_of(id) = CurrFile
                       /\ kind(id) = "NAME_REF"
                       /\ El(id).d = def
                       /\ InUse(id)
                       /\ contains_range(sel, text_range(id))

\* the full path of an import entry, group prefixes included
ImportPath(site) == SitePathAt(site, FALSE)

\* the declaration lies outside the selection in the module of the selection
DeclSameScopeOutside(def) ==
    LET decl == DeclOf(def)
    IN  /\ decl # NoNode
        /\ file_of(decl) = CurrFile
        /\ HirModuleOf(decl) = HirModuleOf(node)
        /\ ~contains_range(sel, text_range(decl))

\* a synthesized import reuses a path, possibly with one more leading `super`
BuiltFrom(path, full) == SegTexts(path) \in {full, <<"super">> \o full}

SuperImport(text) == Made(<<"super", "::">> \o text)

\* C8: decision row inside+outside: for a symbol with non-import occurrences
\* both inside and outside the selection no deletion range is returned; the
\* new module gets an import built from the existing import's path if there
\* is one, else `use super::<name>;` exactly when the declaration lies outside
\* the selection in the same scope, else no import.
C8_RowInsideAndOutside ==
    (pc = "built" /\ ExactSelection) =>
        \A i \in DOMAIN import_log :
            LET e == import_log[i]
            IN  (UsedInside(e.def) /\ UsedOutside(e.def) /\ ~ImportMoved(e.def)) =>
                    /\ e.range = NoRange
                    /\ IF ImportSites(e.def) # {}
                       THEN /\ Len(e.added) = 1
                            /\ \E s \in ImportSites(e.def) :
                                   BuiltFrom(e.added[1].path, ImportPath(s))
                       ELSE IF DeclSameScopeOutside(e.def)
                       THEN e.added = <<SuperImport(e.text)>>
                       ELSE e.added = <<>>

\* C9: decision row inside-only, source not in the same scope: with a
\* pre-existing import of the symbol (a single-path import or an entry of an
\* import group) the new module gets an import with that path and a deletion
\* removing the import from its old location is scheduled.
C9_RowInsideOnlyOtherScope ==
    (pc = "built" /\ ExactSelection) =>
        \A i \in DOMAIN import_log :
            LET e == import_log[i]
            IN  (/\ UsedInside(e.def) /\ ~UsedOutside(e.def)
                 /\ ~DeclSameScopeOutside(e.def)
                 /\ ImportSites(e.def) # {} /\ ~ImportMoved(e.def)) =>
                    /\ Len(e.added) = 1
                    /\ \E s \in ImportSites(e.def) :
                           /\ BuiltFrom(e.added[1].path, ImportPath(s))
                           /\ e.range # NoRange
                           /\ contains_range(e.range, text_range(s))
                           /\ Deleted(s)

\* C10: decision row inside-only, source in the same scope: with a
\* pre-existing import the new module gets its path with one more leading
\* `super` unless the path is rooted at `super` or `crate`; with no import it
\* gets exactly `use super::<name>;` and nothing is deleted; in both cases the
\* synthesized import reaches the declaration that stayed outside.
C10_RowInsideOnlySameScope ==
    (pc = "built" /\ ExactSelection) =>
        \A i \in DOMAIN import_log :
            LET e == import_log[i]
            IN  (/\ UsedInside(e.def) /\ ~UsedOutside(e.def)
                 /\ DeclSameScopeOutside(e.def) /\ ~ImportMoved(e.def)) =>
                    /\ Len(e.added) = 1
                    /\ IF ImportSites(e.def) # {}
                       THEN \E s \in ImportSites(e.def) :
                                SegTexts(e.added[1].path) =
                                    IF Head(ImportPath(s)) \in {"super", "crate"}
                                    THEN ImportPath(s)
                                    ELSE <<"super">> \o ImportPath(s)
                       ELSE e.added = <<SuperImport(e.text)>> /\ e.range = NoRange
                    /\ AbsPath(NewScope, SegTexts(e.added[1].path)) = HomeBefore(e.def)

\* ------------------------------------------------------------------------
\* The hosted case and the frame
\* ------------------------------------------------------------------------
\* x is the element blk or lies below it
Under(x, blk) == Len(x) >= Len(blk) /\ SubSeq(x, 1, Len(blk)) = blk

\* sub occurs in seq as a contiguous run
IsSubSeq(sub, seq) ==
    \E i \in 0..(Len(seq) - Len(sub)) : SubSeq(seq, i + 1, i + Len(sub)) = sub

\* the selection is exactly one member of a type-extension block: that member
SelectedMember ==
    IF /\ ExactSelection
       /\ Len(module.body_items) = 1
       /\ text_range(module.body_items[1]) = sel
       /\ Len(module.body_items[1]) > 2
       /\ kind(parent(parent(module.body_items[1]))) = "IMPL"
    THEN module.body_items[1] ELSE NoNode

\* the members of the block that holds member m
MembersWith(m) == {c \in ToSet(children(parent(m))) : IsItem(c)}

\* the target type of a block: its last type, the one before the member list
TargetType(blk) ==
    LET tys == {c \in ToSet(children(blk)) : kind(c) = "PATH_TYPE"}
    IN  to_string(CHOOSE c \in tys : \A o \in tys : text_range(o).s <= text_range(c).s)

\* C11: hosted case: when the selection is a member of a type-extension
\* block, the edits delete the member if the block has other members and the
\* whole block if it is the only member (nothing else of the block's text but
\* whitespace is deleted), insert right after the block's end one new module
\* that holds `use super::<TargetType>;` and a block `impl <TargetType> { .. }`
\* with the moved member, and do not replace the selection in place.
C11_HostedNetEdit ==
    (pc = "built" /\ SelectedMember # NoNode) =>
        LET m == SelectedMember
            blk == parent(parent(m))
            removed == IF Cardinality(MembersWith(m)) = 1 THEN blk ELSE m
            ty == TargetType(blk)
            ins == {i \in DOMAIN edits : edits[i].op = "insert"}
        IN  /\ \E i \in DOMAIN edits : edits[i] = Delete(CurrFile, text_range(removed))
            /\ \A i \in DOMAIN edits : \A t \in AllIds :
                   (/\ edits[i].op = "delete" /\ edits[i].file = CurrFile
                    /\ Under(t, blk) /\ El(t).tok /\ kind(t) # "WHITESPACE"
                    /\ ~contains_range(text_range(removed), text_range(t)))
                   => ~Overlap(edits[i].range, text_range(t))
            /\ Cardinality(ins) = 1
            /\ \A i \in ins :
                   /\ edits[i].file = CurrFile
                   /\ edits[i].range = Range(text_range(blk).e, text_range(blk).e)
                   /\ SubSeq(edits[i].text, 1, 3) = <<"mod", "modname", "{">>
                   /\ IsSubSeq(<<"use", "super", "::">> \o ty \o <<";">>, edits[i].text)
                   /\ IsSubSeq(<<"impl">> \o ty \o <<"{">> \o RenderEl(m, vis_inserted)
                                   \o <<"}", "}">>, edits[i].text)
            /\ \A i \in DOMAIN edits :
                   ~(/\ edits[i].op = "replace" /\ edits[i].file = CurrFile
                     /\ contains_range(edits[i].range, sel))

\* the only member of a block that implements a trait was selected: the whole
\* block is deleted and recreated for its target type
C11_Witness ==
    /\ pc = "built"
    /\ SelectedMember # NoNode
    /\ Cardinality(MembersWith(SelectedMember)) = 1
    /\ \E i \in DOMAIN edits : edits[i].op = "insert"

\* the references inside the selection that resolve to a Definition
InsideRefs ==
    {id \in AllIds : /\ kind(id) = "NAME_REF" /\ El(id).d # NoDef
                     /\ file_of(id) = CurrFile /\ contains_range(sel, text_range(id))}

\* the Definition is declared inside the selection
DeclaredInside(def) ==
    /\ DeclOf(def) # NoNode
    /\ file_of(DeclOf(def)) = CurrFile
    /\ contains_range(sel, text_range(DeclOf(def)))

\* the edits were built for a selection of whole declarations none of which
\* is referenced outside it and which refers to nothing declared outside it
SelfContained ==
    /\ pc = "built"
    /\ ExactSelection
    /\ \A def \in MovedDefs : OutsideSites(def) = {}
    /\ \A id \in InsideRefs : DeclaredInside(El(id).d)

\* the import declarations inside the selection, at any depth
ImportsInside ==
    {id \in AllIds : /\ kind(id) = "USE" /\ file_of(id) = CurrFile
                     /\ contains_range(sel, text_range(id))}

\* the texts of the moved declarations, in order
RECURSIVE MovedText(_)
MovedText(i) ==
    IF i > Len(module.body_items) THEN <<>>
    ELSE RenderEl(module.body_items[i], vis_inserted) \o MovedText(i + 1)

\* the only edit is one Replace of the selection by `mod modname { .. }`
OnlyReplaceInPlace ==
    edits = <<Replace(CurrFile, sel, <<"mod", "modname", "{">> \o MovedText(1) \o <<"}">>)>>

DefinitionKinds == {"FN", "STRUCT", "ENUM", "UNION", "TYPE_ALIAS", "CONST", "STATIC",
                    "MACRO_RULES", "MACRO_DEF", "TRAIT"}

\* the scheduled Replace edits of file f with range r
ReplacesAt(f, r) ==
    {i \in DOMAIN edits : edits[i].op = "replace" /\ edits[i].file = f /\ edits[i].range = r}

\* exactly one Replace is scheduled at the reference, by `modname::<name>`
Qualified(site) ==
    /\ Cardinality(ReplacesAt(file_of(site), text_range(site))) = 1
    /\ \A i \in ReplacesAt(file_of(site), text_range(site)) :
           edits[i].text = <<"modname", "::">> \o to_string(site)

\* C13: for every body declaration of a Definition-introducing kind and
\* every reference to it in the project that lies outside the selection,
\* exactly one Replace is scheduled whose range is the reference's own name
\* range and whose text is `modname::<originalName>`.
C13_UsagesQualified ==
    (pc = "built" /\ ExactSelection) =>
        \A i \in DOMAIN module.body_items :
            (kind(module.body_items[i]) \in DefinitionKinds
             /\ to_def(module.body_items[i]) # NoDef) =>
                \A site \in OutsideSites(to_def(module.body_items[i])) : Qualified(site)

\* the scheduled Replace edits that qualify a usage (`modname::<name>`)
UsageReplaces ==
    {i \in DOMAIN edits : /\ edits[i].op = "replace"
                          /\ Len(edits[i].text) >= 2
                          /\ edits[i].text[1] = "modname"
                          /\ edits[i].text[2] = "::"}

\* the references of the selection's own file to moved declarations that lie
\* inside the selection
MovedRefsInside ==
    {r \in UNION {ToSet(UsagesInFile(to_def(module.body_items[i]), CurrFile)) :
                     i \in {j \in DOMAIN module.body_items :
                               to_def(module.body_items[j]) # NoDef}} :
        contains_range(sel, text_range(r))}

\* C14: no usage Replace scheduled for the selection's own file has a range
\* contained in the selection.
C14_NoUsageReplaceInsideSelection ==
    pc = "built" =>
        \A i \in UsageReplaces :
            edits[i].file = CurrFile => ~contains_range(sel, edits[i].range)

\* a moved declaration is referenced inside the selection and outside of it
\* in the same file, and the outside reference is qualified
C14_Witness ==
    /\ pc = "built"
    /\ MovedRefsInside # {}
    /\ \E i \in UsageReplaces : edits[i].file = CurrFile

\* the files other than the one that holds the selection
OtherFiles == Files \ {CurrFile}

\* C15: a reference to a moved item that lies in another file than the
\* selection is treated as outside the selection, whatever its offsets, and
\* is qualified.
C15_OtherFileUsagesQualified ==
    (pc = "built" /\ ExactSelection) =>
        \A i \in DOMAIN module.body_items :
            (kind(module.body_items[i]) \in UsageItemKinds
             /\ to_def(module.body_items[i]) # NoDef) =>
                \A f \in OtherFiles :
                    \A r \in ToSet(UsagesInFile(to_def(module.body_items[i]), f)) :
                        Qualified(r)

\* ------------------------------------------------------------------------
\* Import decision
\* ------------------------------------------------------------------------
\* the symbols processed by resolve_imports that have no reference inside the
\* selection other than in an import declaration
NotUsedInsideRows == {i \in DOMAIN import_log : ~import_log[i].facts.exists_inside_sel}

\* C16: when a symbol has no reference inside the selection
\* (existsInsideSel is false) no import is synthesized for it and no
\* deletion range is returned, whatever the other facts are.
C16_NotInsideNoImport ==
    \A i \in NotUsedInsideRows :
        import_log[i].added = <<>> /\ import_log[i].range = NoRange

\* a symbol without a reference inside the selection that is used outside,
\* has an import declaration and is declared outside the selection in the
\* same module was processed
C16_Witness ==
    \E i \in NotUsedInsideRows :
        /\ import_log[i].facts.exists_outside_sel
        /\ import_log[i].facts.use_stmt_opt # NoNode
        /\ import_log[i].facts.source_exists_outside_sel_in_same_mod

\* the number of leading `super` segments of a rendered path
RECURSIVE LeadingSupers(_)
LeadingSupers(path) ==
    IF path = <<>> \/ Head(path) # "super" THEN 0
    ELSE 1 + LeadingSupers(IF Len(path) >= 2 THEN SubSeq(path, 3, Len(path)) ELSE <<>>)

\* the existing import path found for the symbol of row i: the collected
\* paths innermost first
ReusedPaths(i) ==
    process_use_stmt_for_import_resolve(import_log[i].facts.use_stmt_opt,
                                        import_log[i].text).use_tree_str

\* the rows of the import decision that synthesized an import by reusing an
\* existing import path whose outermost segment contains `super`
ReusedSuperRows ==
    {i \in DOMAIN import_log :
        /\ import_log[i].added # <<>>
        /\ ReusedPaths(i) # <<>>
        /\ ContainsSuper(ReusedPaths(i)[Len(ReusedPaths(i))])}

\* C17: an import synthesized by reusing an existing import path whose
\* outermost segment contains a `super` marker has exactly one more leading
\* `super` segment than the original path, in every row of the decision table
\* (for whole declarations selected, an import that stays outside the
\* selection, and a symbol whose declaration is where the decision takes it
\* to be).
C17_OneMoreSuper ==
    (pc = "built" /\ ExactSelection) =>
    \A i \in ReusedSuperRows :
      (/\ ~ImportMoved(import_log[i].def)
       /\ import_log[i].facts.source_exists_outside_sel_in_same_mod
              <=> DeclSameScopeOutside(import_log[i].def)) =>
        LeadingSupers(import_log[i].added[1].path)
            = LeadingSupers(join_paths(Reverse(ReusedPaths(i)))) + 1

\* ------------------------------------------------------------------------
\* Import paths collected from nested import groups
\* ------------------------------------------------------------------------
\* the path segment of the import declaration found for the symbol of row i
\* (line 637-639)
FoundSegment(i) ==
    LET IsSeg(desc) == kind(desc) = "PATH_SEGMENT" /\ to_string(desc) = import_log[i].text
    IN  IF import_log[i].facts.use_stmt_opt = NoNode THEN NoNode
        ELSE Find(descendants(import_log[i].facts.use_stmt_opt), IsSeg)

\* the import entry (a use tree without a list) whose path ends in the segment
EntryOf(seg) ==
    LET p == parent(seg)
        t == parent(p)
        IsList(c) == kind(c) = "USE_TREE_LIST"
    IN  IF /\ seg # NoNode
           /\ seg[Len(seg)] = El(p).n
           /\ kind(t) = "USE_TREE"
           /\ ~AnyOf(children(t), IsList)
        THEN t ELSE NoNode

\* the import groupings that enclose an import entry, innermost first
GroupingsOf(entry) ==
    LET IsGroup(x) == kind(x) = "USE_TREE" /\ use_tree_path(x) # NoNode
    IN  SelectSeq(Tail(ancestors(entry)), IsGroup)

\* the rows whose symbol is imported by an entry of an import declaration
ImportedRows == {i \in DOMAIN import_log : EntryOf(FoundSegment(i)) # NoNode}

\* the prefixes of the groupings outer to inner, then the path of the entry
ExpectedPath(entry) ==
    Reverse([j \in DOMAIN GroupingsOf(entry) |-> to_string(use_tree_path(GroupingsOf(entry)[j]))])
        \o <<to_string(use_tree_path(entry))>>

\* C18: for a symbol imported through nested import groups of any depth the
\* collected path, once reversed, is the prefix path of every enclosing import
\* grouping, each exactly once, outer to inner, followed by the symbol's own
\* segment, also when two nesting levels carry textually equal prefixes.
C18_NestedGroupPath ==
    \A i \in ImportedRows :
        Reverse(ReusedPaths(i)) = ExpectedPath(EntryOf(FoundSegment(i)))

\* C19: sourceExistsOutsideSelInSameScope is true if and only if the
\* declaration of the Definition lies in the very same enclosing named module
\* as the selection (not merely a module of equal name or the same file) and
\* its range is not contained in the selection.
C19_SourceInSameScope ==
    (pc = "built" /\ ExactSelection) =>
        \A i \in DOMAIN import_log :
            import_log[i].facts.source_exists_outside_sel_in_same_mod
                <=> DeclSameScopeOutside(import_log[i].def)

\* ------------------------------------------------------------------------
\* resolve_imports
\* ------------------------------------------------------------------------
\* the Definitions that some name or name reference inside the moved
\* declarations resolves to
ReferencedDefs ==
    {El(x).d : x \in {y \in UNION {ToSet(descendants(module.body_items[i])) :
                                      i \in DOMAIN module.body_items} :
                         kind(y) \in {"NAME", "NAME_REF"} /\ El(y).d # NoDef}}

\* the rows of the import decision made for a Definition
RowsOf(def) == {i \in DOMAIN import_log : import_log[i].def = def}

\* C20: in resolve_imports every Definition referenced by some name or name
\* reference inside the moved declarations is passed to the import decision
\* exactly once: a repeated symbol is not processed again, and no Definition
\* is skipped because another name with the same text was seen earlier.
C20_EachDefinitionOnce ==
    pc = "built" => \A def \in ReferencedDefs : Cardinality(RowsOf(def)) = 1

\* ------------------------------------------------------------------------
\* Symbols of a kind the import decision does not recognize
\* ------------------------------------------------------------------------
\* the rows of symbols referenced inside the selection whose declaration is
\* of none of the kinds does_source_exists_outside_sel_in_same_mod has an arm for
UnrecognizedRows ==
    {i \in DOMAIN import_log :
        /\ import_log[i].facts.exists_inside_sel
        /\ DefKind(import_log[i].def) \notin SourceKinds \cup {"Module"}}

\* the refactor completed: the edit of the selection itself was scheduled
Completed ==
    /\ pc = "built"
    /\ \E i \in DOMAIN edits : edits[i].file = CurrFile /\ edits[i].op \in {"replace", "insert"}
                               /\ Len(edits[i].text) >= 2
                               /\ edits[i].text[1] = "mod" /\ edits[i].text[2] = "modname"

VisibleDeclKinds == {"FN", "STRUCT", "ENUM", "UNION", "TYPE_ALIAS", "CONST", "STATIC",
                     "TRAIT", "MODULE", "EXTERN_CRATE", "MACRO_DEF"}

\* the moved declarations
MovedDecls == ToSet(module.body_items)

\* the members of the moved impl blocks that do not implement a trait
MovedInherentMembers ==
    {x \in UNION {ToSet(descendants(b)) :
                     b \in {y \in MovedDecls : kind(y) = "IMPL" /\ for_token(y) = NoNode}} :
        IsItem(x) /\ parent(x) # NoNode /\ kind(parent(x)) = "ASSOC_ITEM_LIST"}

\* the number of modifiers the declaration x received
ModifiersOn(x) == Cardinality({i \in DOMAIN vis_inserted : parent(vis_inserted[i]) = x})

\* the declarations C22 speaks of: of a kind that gets a visibility, without
\* one, and not a member of a trait implementation
NeedsVisibility(x) ==
    /\ kind(x) \in VisibleDeclKinds
    /\ visibility(x) = NoNode
    /\ ~TraitImplMember(x)

\* C22: after change_visibility every moved declaration of kind function,
\* algebraic data type, type alias, constant, static, trait, nested module,
\* extern-import or macro-definition that had no explicit visibility carries
\* exactly one crate-visible modifier, and so does every member of a moved
\* impl block that does not implement a trait.
C22_ModifierOnEveryDeclaration ==
    pc = "built" =>
        \A x \in MovedDecls \cup MovedInherentMembers :
            NeedsVisibility(x) => ModifiersOn(x) = 1

\* the token kinds that are keywords of a declaration
DeclKeywordKinds == {"FN_KW", "STRUCT_KW", "ENUM_KW", "UNION_KW", "TRAIT_KW", "TYPE_KW",
                     "MOD_KW", "CONST_KW", "STATIC_KW", "MACRO_KW", "EXTERN_KW", "CRATE_KW",
                     "UNSAFE_KW", "IMPL_KW"}

\* the children of a declaration that precede the element a
Before(a) == {Append(parent(a), j) : j \in 1..(a[Len(a)] - 1)}

\* C23: for every declaration that receives a crate-visible modifier the
\* modifier is inserted immediately before the leading keyword of the
\* declaration, so that no keyword token of the declaration precedes it; the
\* name is the anchor only when the node has no keyword (a field).
C23_ModifierBeforeLeadingKeyword ==
    pc = "built" =>
        \A i \in DOMAIN vis_inserted :
            /\ \A b \in Before(vis_inserted[i]) : kind(b) \notin DeclKeywordKinds
            /\ kind(vis_inserted[i]) = "NAME" =>
                   \A c \in ToSet(children_with_tokens(parent(vis_inserted[i]))) :
                       kind(c) \notin DeclKeywordKinds

\* the fields, record-style or positional-style, of the moved structs and unions
MovedFields ==
    {x \in UNION {ToSet(descendants(b)) :
                     b \in {y \in MovedDecls : kind(y) \in {"STRUCT", "UNION"}}} :
        /\ kind(x) \in {"RECORD_FIELD", "TUPLE_FIELD"}
        /\ kind(parent(parent(x))) \in {"STRUCT", "UNION"}
        /\ parent(parent(x)) \in MovedDecls}

\* C24: every field of a moved struct or union, record-style or
\* positional-style, that has no explicit visibility receives a crate-visible
\* modifier; a field that has an explicit visibility is left as it is.
C24_FieldsGetModifier ==
    pc = "built" =>
        \A x \in MovedFields :
            ModifiersOn(x) = (IF visibility(x) = NoNode THEN 1 ELSE 0)

\* the element lies inside a variant of an enum
InVariant(x) == \E a \in ToSet(ancestors(x)) : kind(a) = "VARIANT"

\* C25: no field of an enum variant ever receives a visibility modifier,
\* whatever other declarations are moved together with the enum.
C25_VariantFieldsUntouched ==
    pc = "built" =>
        \A i \in DOMAIN vis_inserted :
            ~(InVariant(vis_inserted[i])
              /\ kind(parent(vis_inserted[i])) \in {"RECORD_FIELD", "TUPLE_FIELD"})

\* an enum with a variant field is moved together with a union that has a
\* field of the same text, and the field of the union got its modifier
C25_Witness ==
    /\ pc = "built"
    /\ \E e \in MovedDecls, f \in MovedFields :
           /\ kind(e) = "ENUM"
           /\ ModifiersOn(f) = 1
           /\ \E v \in ToSet(descendants(e)) :
                  /\ kind(v) = "RECORD_FIELD" /\ InVariant(v)
                  /\ to_string(v) = to_string(f)
                  /\ ModifiersOn(v) = 0

\* ------------------------------------------------------------------------
\* Selections inside the member list of a type-extension block
\* ------------------------------------------------------------------------
\* the selection is a run of whole members of one type-extension block:
\* these members
SelectedMembers ==
    IF /\ pc \in {"registered", "built"}
       /\ ExactSelection
       /\ \A j \in DOMAIN module.use_items : module.use_items[j].made
       /\ \A x \in MovedDecls : /\ Len(x) > 2
                                /\ kind(parent(x)) = "ASSOC_ITEM_LIST"
                                /\ kind(parent(parent(x))) = "IMPL"
    THEN MovedDecls ELSE {}

\* the block that holds the selected members
HostBlock == parent(parent(CHOOSE x \in SelectedMembers : TRUE))

\* the scheduled edits that carry the text of the new module
ModuleEdits ==
    {i \in DOMAIN edits : /\ Len(edits[i].text) >= 2
                          /\ edits[i].text[1] = "mod" /\ edits[i].text[2] = "modname"}

\* C26: for any applicable selection lying inside the member list of a
\* type-extension block, one member or several adjacent members, the new
\* module is inserted as a sibling after the block and is never placed inside
\* the block.
C26_ModuleAfterBlock ==
    (pc = "built" /\ SelectedMembers # {}) =>
        /\ ModuleEdits # {}
        /\ \A i \in ModuleEdits :
               /\ edits[i].file = CurrFile
               /\ edits[i].op = "insert"
               /\ edits[i].range = Range(text_range(HostBlock).e, text_range(HostBlock).e)

\* ------------------------------------------------------------------------
\* The order in which the edits are scheduled
\* ------------------------------------------------------------------------
\* the node deleted in the hosted case
HostedRemoved == IF impl_child_count = 1 THEN impl_parent ELSE node

\* the edits of the selection itself: the edit that carries the module, and
\* in the hosted case the deletions of the member or block and of the
\* whitespace before it
OwnEdits ==
    ModuleEdits \cup
    (IF impl_parent = NoNode THEN {}
     ELSE {i \in DOMAIN edits :
              /\ edits[i].op = "delete" /\ edits[i].file = CurrFile
              /\ \/ edits[i].range = text_range(HostedRemoved)
                 \/ edits[i].range = indent_range_before_given_node(HostedRemoved)})

\* 0: an edit of another file, 1: a usage replacement in the file of the
\* selection, 2: an import deletion, 3: an edit of the selection itself
Stage(i) ==
    IF edits[i].file # CurrFile THEN 0
    ELSE IF i \in OwnEdits THEN 3
    ELSE IF i \in UsageReplaces THEN 1
    ELSE 2

\* the usage replacement i is recorded in the file of a reference, at the
\* range of that reference
AtItsReference(i) ==
    \E r \in AllIds : /\ kind(r) = "NAME_REF"
                      /\ El(r).d \in MovedDefs
                      /\ file_of(r) = edits[i].file
                      /\ text_range(r) = edits[i].range
                      /\ edits[i].text = <<"modname", "::">> \o to_string(r)

\* C27: every usage replacement is recorded under the file of its reference;
\* all edits for other files are scheduled before any edit for the file of
\* the selection; within that file the order is usage replacements, import
\* deletions, then the selection's own edit (in-place replace, or delete plus
\* insert in the hosted case), which is the last edit scheduled.
C27_EditOrder ==
    pc = "built" =>
        /\ \A i \in UsageReplaces \ OwnEdits : AtItsReference(i)
        /\ \A i, j \in DOMAIN edits : i < j => Stage(i) <= Stage(j)
        /\ Len(edits) \in ModuleEdits
        /\ \A i \in DOMAIN edits : Stage(i) = 2 => edits[i].op = "delete"

\* usages were replaced in another file and in the file of the selection, an
\* import was deleted, and the selection was replaced by the module
C27_Witness ==
    /\ pc = "built"
    /\ {Stage(i) : i \in DOMAIN edits} = 0..3

\* ------------------------------------------------------------------------
\* The import prelude of the new module
\* ------------------------------------------------------------------------
\* the path text of a use item of the module
PathText(item) ==
    IF item.made THEN item.path
    ELSE LET tree == CHOOSE c \in ToSet(children_with_tokens(item.id)) : kind(c) = "USE_TREE"
         IN  to_string(tree)

\* the use items are rendered into the module text
PreludeRendered == impl_parent = NoNode \/ self_ty(impl_parent) # NoNode

\* C28: the import prelude rendered in the new module never contains two
\* imports with identical path text, including when a selected import
\* declaration already imports a symbol used in the selection and when, in
\* the hosted case, the target type of the block is also referenced by the
\* moved member.
C28_NoDuplicateImports ==
    (pc = "built" /\ PreludeRendered) =>
        \A i, j \in DOMAIN module.use_items :
            i # j => PathText(module.use_items[i]) # PathText(module.use_items[j])

\* ------------------------------------------------------------------------
\* The whitespace deleted with a hosted member
\* ------------------------------------------------------------------------
\* the range of the second deletion of the hosted case, NoRange when the
\* member or block is deleted alone
WhitespaceDeleted ==
    LET n == Len(edits)
    IN  IF /\ n >= 3
           /\ edits[n - 2] = Delete(CurrFile, text_range(HostedRemoved))
           /\ edits[n - 1].op = "delete"
        THEN edits[n - 1].range
        ELSE NoRange

\* the whitespace tokens that end where the deleted node starts
WhitespaceRightBefore ==
    {w \in AllIds : /\ kind(w) = "WHITESPACE"
                    /\ file_of(w) = CurrFile
                    /\ text_range(w).e = text_range(HostedRemoved).s}

\* C29: in the hosted case, the whitespace range deleted together with the
\* removed member or block is the single whitespace token immediately
\* preceding the deleted node, it ends exactly where the deleted node
\* starts; when no whitespace immediately precedes the node, no whitespace
\* is deleted.
C29_AdjacentWhitespaceOnly ==
    (pc = "built" /\ impl_parent # NoNode) =>
        /\ WhitespaceDeleted # NoRange =>
               \E w \in WhitespaceRightBefore : text_range(w) = WhitespaceDeleted
        /\ WhitespaceRightBefore = {} => WhitespaceDeleted = NoRange

\* ------------------------------------------------------------------------
\* The deletion list as a set of text positions
\* ------------------------------------------------------------------------
\* the text positions covered by a list of ranges
Covered(list) ==
    {p \in 0..MaxPos : \E i \in DOMAIN list : list[i].s <= p /\ p < list[i].e}

\* C30: after any sequence of check_intersection_and_push calls the text
\* positions covered by the deletion list are exactly the union of the
\* candidate ranges pushed so far, and pushing a range that is already in
\* the list leaves the list unchanged.
C30_CoverageAndIdempotence ==
    /\ Covered(import_paths_to_be_removed) = Covered(pushed)
    /\ \A k \in DOMAIN import_paths_to_be_removed :
           check_intersection_and_push(import_paths_to_be_removed,
                                       import_paths_to_be_removed[k])
               = import_paths_to_be_removed

====
